---------------------------- MODULE Spec2Model ----------------------------
(***************************************************************************)
(* A model of the PIQP solver driver (include/piqp/solver.hpp): the box    *)
(* bound compression of setup, the update path, and solve_impl's proximal  *)
(* interior-point loop with its factorisation retries, step-length rule    *)
(* and regularisation schedule.                                            *)
(*                                                                         *)
(* Numbers.  The driver computes in double precision.  The model computes  *)
(* exactly, on rationals <<num, den>> with den > 0 in lowest terms,        *)
(* extended with the three IEEE special values a division by zero          *)
(* produces: NaN = <<0,0>>, +inf = <<1,0>>, -inf = <<-1,0>>.  Rounding and   *)
(* signed zeros are not modelled.                                          *)
(*                                                                         *)
(* Units.  rho, delta, reg_limit, feas_tol_abs and the residual norms are  *)
(* expressed in units of 1e-13 (the driver only ever compares them with    *)
(* each other, with the constant 1e-13 and through dimensionless factors), *)
(* the proximal distances ||x - zeta||, ||lambda - y|| in units of 1e10    *)
(* (the driver only compares them with 1e10).  s, z, mu, sigma, dual_tol   *)
(* and the step lengths are in natural units.                              *)
(*                                                                         *)
(* Opaque collaborators.  The KKT operator, the preconditioner and the     *)
(* settings object are not part of solver.hpp.  factorize() returns either *)
(* boolean; a KKT solve returns any duals and directions over the          *)
(* environment's value sets, the initial solve recovering the slacks from  *)
(* the duals as the KKT contract says; the norms of residuals (functions   *)
(* of x, y, the problem data and the scaling) take any value of the        *)
(* environment's norm set.                                                 *)
(***************************************************************************)
EXTENDS Integers, Sequences, FiniteSets, TLC

\* ------------------------------------------------------------------------
\* Exact arithmetic with IEEE special values
\* ------------------------------------------------------------------------

Abs(i) == IF i < 0 THEN -i ELSE i

RECURSIVE Gcd(_, _)
Gcd(a, b) == IF b = 0 THEN a ELSE Gcd(b, a % b)

\* The rational n/d (d # 0) in lowest terms with a positive denominator.
Rat(n, d) ==
    LET g == Gcd(Abs(n), Abs(d))
        sg == IF d < 0 THEN -1 ELSE 1
    IN  <<sg * (n \div g), sg * (d \div g)>>

I(n) == <<n, 1>>

NaN == <<0, 0>>
PInf == <<1, 0>>
NInf == <<-1, 0>>

IsNaN(a) == a = NaN
IsFinite(a) == a[2] # 0
Sign(a) == IF a[1] > 0 THEN 1 ELSE IF a[1] < 0 THEN -1 ELSE 0

FNeg(a) == <<-a[1], a[2]>>

FAdd(a, b) ==
    IF IsNaN(a) \/ IsNaN(b) THEN NaN
    ELSE IF ~IsFinite(a) THEN (IF ~IsFinite(b) /\ b # a THEN NaN ELSE a)
    ELSE IF ~IsFinite(b) THEN b
    ELSE LET g == Gcd(a[2], b[2])
         IN  Rat(a[1] * (b[2] \div g) + b[1] * (a[2] \div g), (a[2] \div g) * b[2])

FSub(a, b) == FAdd(a, FNeg(b))

FMul(a, b) ==
    IF IsNaN(a) \/ IsNaN(b) THEN NaN
    ELSE IF ~IsFinite(a) \/ ~IsFinite(b)
         THEN (IF Sign(a) * Sign(b) = 0 THEN NaN
               ELSE IF Sign(a) * Sign(b) > 0 THEN PInf ELSE NInf)
    ELSE LET g1 == Gcd(Abs(a[1]), b[2])
             g2 == Gcd(Abs(b[1]), a[2])
         IN  Rat((a[1] \div g1) * (b[1] \div g2), (a[2] \div g2) * (b[2] \div g1))

\* IEEE division: x/0 is +-inf for x # 0 and NaN for x = 0.
FDiv(a, b) ==
    IF IsNaN(a) \/ IsNaN(b) THEN NaN
    ELSE IF ~IsFinite(a)
         THEN (IF ~IsFinite(b) THEN NaN
               ELSE IF Sign(b) < 0 THEN FNeg(a) ELSE a)
    ELSE IF ~IsFinite(b) THEN I(0)
    ELSE IF b[1] = 0
         THEN (IF a[1] = 0 THEN NaN ELSE IF a[1] > 0 THEN PInf ELSE NInf)
    ELSE LET g1 == Gcd(Abs(a[1]), Abs(b[1]))
             g2 == Gcd(a[2], b[2])
         IN  Rat((a[1] \div g1) * (b[2] \div g2), (a[2] \div g2) * (b[1] \div g1))

\* a < b as the hardware decides it: false whenever an operand is NaN.
FLt(a, b) ==
    IF IsNaN(a) \/ IsNaN(b) THEN FALSE
    ELSE IF a = b THEN FALSE
    ELSE IF a = NInf \/ b = PInf THEN TRUE
    ELSE IF a = PInf \/ b = NInf THEN FALSE
    ELSE LET g == Gcd(a[2], b[2])
         IN  a[1] * (b[2] \div g) < b[1] * (a[2] \div g)

FGt(a, b) == FLt(b, a)
FLe(a, b) == ~IsNaN(a) /\ ~IsNaN(b) /\ ~FLt(b, a)

\* std::max(a, b) is (a < b) ? b : a and std::min(a, b) is (b < a) ? b : a.
StdMax(a, b) == IF FLt(a, b) THEN b ELSE a
StdMin(a, b) == IF FLt(b, a) THEN b ELSE a

FAbs(a) == <<Abs(a[1]), a[2]>>

\* ------------------------------------------------------------------------
\* Bound values and the sentinel PIQP_INF
\* ------------------------------------------------------------------------

\* A bound value k * 1e30 + v with |v| far below 1e30, as [inf |-> k, fin |-> v];
\* the order is lexicographic and negation is componentwise.
BVal(k, v) == [inf |-> k, fin |-> v]
BNeg(a) == [inf |-> -a.inf, fin |-> -a.fin]
BLt(a, b) == a.inf < b.inf \/ (a.inf = b.inf /\ a.fin < b.fin)
BGt(a, b) == BLt(b, a)

PIQP_INF == BVal(1, 0)

\* optional<CVecRef<T>>
Some(v) == [has |-> TRUE, v |-> v]
None == [has |-> FALSE, v |-> <<>>]

\* Content of an array entry that was allocated (resize) and never written.
NoVal == BVal(0, 0)
NoIdx == -1

\* ------------------------------------------------------------------------
\* State
\* ------------------------------------------------------------------------

VARIABLES
    env,            \* the name of the input domains of this run (never changes)
    pc,             \* position of the caller / of solve_impl
    setup_done,     \* m_setup_done
    kkt_init_state, \* m_kkt_init_state
    settings,       \* m_settings
    data,           \* m_data: n, m, n_lb, n_ub and the compressed bound lists
    store,          \* scaling level of each component of m_data
    info,           \* m_result.info
    res,            \* m_result: s, z and the bound parts, with their centres
    nr,             \* what update_nr_residuals last computed (unscaled norms)
    pt,             \* the point (x, y, duals, centres) as the driver observes it
    kkt,            \* the KKT operator: staged rho/delta, factorisation state
    oplog,          \* collaborator calls made since the API call, or the pass
                    \* of the outer loop, in progress began
    hist,           \* history of the call in progress (inputs, counters)
    sparse          \* a call of permute_sparse_symmetric_matrix: A, the
                    \* ordering, and once it returned C and Ai_to_Ci

vars == <<env, pc, setup_done, kkt_init_state, settings, data, store, info,
          res, nr, pt, kkt, oplog, hist, sparse>>

\* ------------------------------------------------------------------------
\* setup_lb_data / setup_ub_data
\* ------------------------------------------------------------------------

\* arr with its 0-based entry i set to v
Put(arr, i, v) == [arr EXCEPT ![i + 1] = v]
\* the 0-based entry i of arr
At(arr, i) == arr[i + 1]

Filled(n, v) == [k \in 1..n |-> v]

\* The loop of setup_lb_data storing the bound without negating it
RECURSIVE LbLoop_NoNegate(_, _, _, _, _)
LbLoop_NoNegate(d, x_lb, i, i_lb, n_lb) ==
    IF i >= d.n THEN [d EXCEPT !.n_lb = n_lb]
    ELSE IF BGt(At(x_lb, i), BNeg(PIQP_INF))
         THEN LbLoop_NoNegate([d EXCEPT !.x_lb_n = Put(@, i_lb, At(x_lb, i)),
                                        !.x_lb_idx = Put(@, i_lb, i)],
                              x_lb, i + 1, i_lb + 1, n_lb + 1)
         ELSE LbLoop_NoNegate(d, x_lb, i + 1, i_lb, n_lb)

\* The loop of setup_lb_data from index i on: d is m_data, i_lb the write
\* position, n_lb the running count.
RECURSIVE LbLoop(_, _, _, _, _)
LbLoop(d, x_lb, i, i_lb, n_lb) ==
    IF i >= d.n THEN [d EXCEPT !.n_lb = n_lb]
    ELSE IF BGt(At(x_lb, i), BNeg(PIQP_INF))
         THEN LbLoop([d EXCEPT !.x_lb_n = Put(@, i_lb, BNeg(At(x_lb, i))),
                               !.x_lb_idx = Put(@, i_lb, i)],
                     x_lb, i + 1, i_lb + 1, n_lb + 1)
         ELSE LbLoop(d, x_lb, i + 1, i_lb, n_lb)

setup_lb_data(d, x_lb) ==
    IF x_lb.has THEN LbLoop(d, x_lb.v, 0, 0, 0) ELSE [d EXCEPT !.n_lb = 0]

\* The loop of setup_ub_data with <= for <
RECURSIVE UbLoop_Inclusive(_, _, _, _, _)
UbLoop_Inclusive(d, x_ub, i, i_ub, n_ub) ==
    IF i >= d.n THEN [d EXCEPT !.n_ub = n_ub]
    ELSE IF ~BGt(At(x_ub, i), PIQP_INF)
         THEN UbLoop_Inclusive([d EXCEPT !.x_ub = Put(@, i_ub, At(x_ub, i)),
                                         !.x_ub_idx = Put(@, i_ub, i)],
                               x_ub, i + 1, i_ub + 1, n_ub + 1)
         ELSE UbLoop_Inclusive(d, x_ub, i + 1, i_ub, n_ub)

\* The loop of setup_ub_data
RECURSIVE UbLoop(_, _, _, _, _)
UbLoop(d, x_ub, i, i_ub, n_ub) ==
    IF i >= d.n THEN [d EXCEPT !.n_ub = n_ub]
    ELSE IF BLt(At(x_ub, i), PIQP_INF)
         THEN UbLoop([d EXCEPT !.x_ub = Put(@, i_ub, At(x_ub, i)),
                               !.x_ub_idx = Put(@, i_ub, i)],
                     x_ub, i + 1, i_ub + 1, n_ub + 1)
         ELSE UbLoop(d, x_ub, i + 1, i_ub, n_ub)

setup_ub_data(d, x_ub) ==
    IF x_ub.has THEN UbLoop(d, x_ub.v, 0, 0, 0) ELSE [d EXCEPT !.n_ub = 0]

\* ------------------------------------------------------------------------
\* Vectors of the iterate
\* ------------------------------------------------------------------------

RECURSIVE FSum(_)
FSum(v) == IF v = <<>> THEN I(0) ELSE FAdd(v[1], FSum(Tail(v)))

\* a.dot(b)
Dot(a, b) == FSum([k \in 1..Len(a) |-> FMul(a[k], b[k])])

\* a.array() + c
AddConst(a, c) == [k \in 1..Len(a) |-> FAdd(a[k], c)]

\* a + step * d
Axpy(a, step, d) == [k \in 1..Len(a) |-> FAdd(a[k], FMul(step, d[k]))]

\* minCoeff() of a non-empty vector of finite values
RECURSIVE MinCoeff(_)
MinCoeff(v) ==
    IF Len(v) = 1 THEN v[1]
    ELSE LET r == MinCoeff(Tail(v)) IN IF FLt(r, v[1]) THEN r ELSE v[1]

\* lpNorm<Infinity>() of a vector of finite values (0 for the empty vector)
RECURSIVE InfNorm(_)
InfNorm(v) ==
    IF v = <<>> THEN I(0)
    ELSE LET r == InfNorm(Tail(v)) IN IF FLt(r, FAbs(v[1])) THEN FAbs(v[1]) ELSE r

Head_(v, k) == SubSeq(v, 1, k)

\* v with its head of length Len(h) replaced by h
WithHead(v, h) == [k \in 1..Len(v) |-> IF k <= Len(h) THEN h[k] ELSE v[k]]

\* The live slack (or dual) components in the order the driver visits them:
\* the m inequality entries, the head n_lb of the lower-bound array, the head
\* n_ub of the upper-bound array.
Live(d, a, a_lb, a_ub) == a \o Head_(a_lb, d.n_lb) \o Head_(a_ub, d.n_ub)

NLive(d) == d.m + d.n_lb + d.n_ub

\* The three pieces of a live vector v
Piece(d, v) == SubSeq(v, 1, d.m)
PieceLb(d, v) == SubSeq(v, d.m + 1, d.m + d.n_lb)
PieceUb(d, v) == SubSeq(v, d.m + d.n_lb + 1, d.m + d.n_lb + d.n_ub)

\* m_result with its live slacks set to s and its live duals to z
WithSZ(d, r, s, z) ==
    [r EXCEPT !.s = Piece(d, s), !.z = Piece(d, z),
              !.s_lb = WithHead(@, PieceLb(d, s)), !.z_lb = WithHead(@, PieceLb(d, z)),
              !.s_ub = WithHead(@, PieceUb(d, s)), !.z_ub = WithHead(@, PieceUb(d, z))]

LiveS(d, r) == Live(d, r.s, r.s_lb, r.s_ub)
LiveZ(d, r) == Live(d, r.z, r.z_lb, r.z_ub)

\* mu = (s.z + s_lb.z_lb + s_ub.z_ub) / (m + n_lb + n_ub)
MuOf(d, s, z) == FDiv(Dot(s, z), I(NLive(d)))

\* ------------------------------------------------------------------------
\* Initial iterate: reset of tiny slacks and the Mehrotra-style shift
\* ------------------------------------------------------------------------

SmallSlack == Rat(1, 10000)     \* 1e-4
TenthConst == Rat(1, 10)        \* 0.1
OneAndHalf == Rat(3, 2)         \* 1.5
Half == Rat(1, 2)               \* 0.5

\* The shift with the factor 1 in place of 1.5: the smallest component is
\* moved onto the boundary instead of past it.
ShiftOf_NoMargin(v) == IF v = <<>> THEN I(0) ELSE StdMax(I(0), FNeg(MinCoeff(v)))

\* delta_s = max(0, -1.5 * min(s)) over the non-empty pieces
ShiftOf(v) == IF v = <<>> THEN I(0) ELSE StdMax(I(0), FMul(FNeg(OneAndHalf), MinCoeff(v)))

\* The live (s, z) after lines 384-420, from the live (s, z) the initial KKT
\* solve returned (N > 0).
InitialShift(s0, z0) ==
    LET n == Len(s0)
        tiny == FLe(InfNorm(s0), SmallSlack)
        s == IF tiny THEN [k \in 1..n |-> TenthConst] ELSE s0
        z == IF tiny THEN [k \in 1..n |-> TenthConst] ELSE z0
        delta_s == ShiftOf(s)
        delta_z == ShiftOf(z)
        tmp_prod == Dot(AddConst(s, delta_s), AddConst(z, delta_z))
        delta_s_bar == FAdd(delta_s, FDiv(FMul(Half, tmp_prod),
                                          FAdd(FSum(z), FMul(I(n), delta_z))))
        delta_z_bar == FAdd(delta_z, FDiv(FMul(Half, tmp_prod),
                                          FAdd(FSum(s), FMul(I(n), delta_s))))
    IN  [s |-> AddConst(s, delta_s_bar), z |-> AddConst(z, delta_z_bar)]

\* ------------------------------------------------------------------------
\* Step length in the non-negative orthant
\* ------------------------------------------------------------------------

\* The loops of lines 556-590 / 610-644 over one family (slacks or duals):
\* alpha = min(1, min over {i : dv(i) < 0} of -v(i) / dv(i)).
RECURSIVE AlphaLoop(_, _, _, _)
AlphaLoop(v, dv, i, alpha) ==
    IF i > Len(v) THEN alpha
    ELSE AlphaLoop(v, dv, i + 1,
                   IF FLt(dv[i], I(0))
                   THEN StdMin(alpha, FDiv(FNeg(v[i]), dv[i]))
                   ELSE alpha)

StepToBoundary(v, dv) == AlphaLoop(v, dv, 1, I(1))

\* ------------------------------------------------------------------------
\* Regularisation schedule and factorisation retry
\* ------------------------------------------------------------------------

RegFinetune == 1                \* 1e-13, in units of 1e-13
ProxLimit == 1                  \* 1e10, in units of 1e10
StallLimit == 5                 \* no_*_update > 5
RetryFactor == 100              \* rho, delta *= 100
LimitFactor == 10               \* 10 * reg_limit
Progress == Rat(19, 20)         \* 0.95
SlowRate == Rat(333, 500)       \* 0.666
FastDecay == Rat(1, 10)         \* 0.1
SlowDecay == Rat(1, 2)          \* 0.5

\* The decay without its floor
RegDecay_NoFloor(reg_limit, factor, r) == FMul(factor, r)

\* std::max(reg_limit, factor * r): the new rho (or delta)
RegDecay(reg_limit, factor, r) == StdMax(reg_limit, FMul(factor, r))

\* The mu-rate factor with the sign of mu_rate slipped
MuFactor_Plus(progress, mu_rate) ==
    IF progress THEN FAdd(I(1), mu_rate)
    ELSE FAdd(I(1), FMul(SlowRate, mu_rate))

\* The factor of the mu-rate schedule (N > 0)
MuFactor(progress, mu_rate) ==
    IF progress THEN FSub(I(1), mu_rate)
    ELSE FSub(I(1), FMul(SlowRate, mu_rate))

\* The two factors of the schedule exchanged
EqFactor_Swapped(progress) == IF progress THEN SlowDecay ELSE FastDecay

\* The factor of the schedule without inequalities (N = 0)
EqFactor(progress) == IF progress THEN FastDecay ELSE SlowDecay

\* mu_rate = |mu_prev - mu| / mu_prev
MuRate(mu_prev, mu) == FDiv(FAbs(FSub(mu_prev, mu)), mu_prev)

\* The retry test with <= for <
CanRetry_OneMore(i, st) == i.factor_retires <= st.max_factor_retires

\* The retry test of lines 353 and 528
CanRetry(i, st) == i.factor_retires < st.max_factor_retires

\* The retry branch without the iter-- of line 532
RetryInflate_NoRollback(i, st, rollback) ==
    [i EXCEPT !.delta = FMul(@, I(RetryFactor)),
              !.rho = FMul(@, I(RetryFactor)),
              !.factor_retires = @ + 1,
              !.reg_limit = StdMin(FMul(I(LimitFactor), @), st.feas_tol_abs)]

\* The retry branch of a failed factorize(): lines 355-358 and 530-534
\* (rollback = 1 in the outer loop, which undoes its iter++, 0 in the initial
\* factorisation loop).
RetryInflate(i, st, rollback) ==
    [i EXCEPT !.delta = FMul(@, I(RetryFactor)),
              !.rho = FMul(@, I(RetryFactor)),
              !.iter = @ - rollback,
              !.factor_retires = @ + 1,
              !.reg_limit = StdMin(FMul(I(LimitFactor), @), st.feas_tol_abs)]

\* A successful factorize() that leaves the retry count alone
FactorizeOk_KeepCount(i) == i

\* Lines 367 and 543: after a successful factorize()
FactorizeOk(i) == [i EXCEPT !.factor_retires = 0]

\* The stagnation test of lines 513-514
StallReset(i) ==
    \/ /\ i.no_primal_update > StallLimit
       /\ i.rho = i.reg_limit
       /\ i.reg_limit # I(RegFinetune)
    \/ /\ i.no_dual_update > StallLimit
       /\ i.delta = i.reg_limit
       /\ i.reg_limit # I(RegFinetune)

\* Lines 513-519
ApplyStallReset(i) ==
    IF StallReset(i)
    THEN [i EXCEPT !.reg_limit = I(RegFinetune),
                   !.no_primal_update = 0,
                   !.no_dual_update = 0]
    ELSE i

\* The convergence test without its complementarity part
Converged_NoMu(i, rel, st) ==
    /\ FLt(i.primal_inf, FAdd(st.feas_tol_abs, FMul(st.feas_tol_rel, rel.rel_primal)))
    /\ FLt(i.dual_inf, FAdd(st.feas_tol_abs, FMul(st.feas_tol_rel, rel.rel_dual)))

\* The convergence test of lines 472-474 on the stored info and relative norms
Converged(i, rel, st) ==
    /\ FLt(i.primal_inf, FAdd(st.feas_tol_abs, FMul(st.feas_tol_rel, rel.rel_primal)))
    /\ FLt(i.dual_inf, FAdd(st.feas_tol_abs, FMul(st.feas_tol_rel, rel.rel_dual)))
    /\ FLt(i.mu, st.dual_tol)

\* The primal infeasibility test with >= for > on the counter
PrimalInfeasible_Inclusive(i, px, rp, st) ==
    /\ i.no_dual_update >= StallLimit
    /\ FGt(px.prox_dual, I(ProxLimit))
    /\ FLt(rp, st.feas_tol_abs)

\* Lines 496 and 502-504: the infeasibility tests, on the regularised residual
\* norms rp (of ry, rz, rz_lb, rz_ub) and rd (of rx)
PrimalInfeasible(i, px, rp, st) ==
    /\ i.no_dual_update > StallLimit
    /\ FGt(px.prox_dual, I(ProxLimit))
    /\ FLt(rp, st.feas_tol_abs)

DualInfeasible(i, px, rd, st) ==
    /\ i.no_primal_update > StallLimit
    /\ FGt(px.prox_primal, I(ProxLimit))
    /\ FLt(rd, st.feas_tol_abs)

\* ------------------------------------------------------------------------
\* restore_box_dual / unscale_results
\* ------------------------------------------------------------------------

Swap(arr, i, j) == [arr EXCEPT ![i + 1] = arr[j + 1], ![j + 1] = arr[i + 1]]

\* The swaps in ascending order: for (i = 0; i <= k; i++)
RECURSIVE SwapDown_Ascending(_, _, _)
SwapDown_Ascending(arr, idx, k) ==
    IF k < 0 THEN arr
    ELSE Swap(SwapDown_Ascending(arr, idx, k - 1), k, At(idx, k))

\* for (i = k; i >= 0; i--) swap(arr(i), arr(idx(i)))
RECURSIVE SwapDown(_, _, _)
SwapDown(arr, idx, k) ==
    IF k < 0 THEN arr ELSE SwapDown(Swap(arr, k, At(idx, k)), idx, k - 1)

\* arr.tail(n - n_act) = fill, then the reverse swaps
RestoreArr(arr, idx, n_act, fill) ==
    SwapDown([k \in 1..Len(arr) |-> IF k > n_act THEN fill ELSE arr[k]], idx, n_act - 1)

restore_box_dual(d, r) ==
    [r EXCEPT !.z_lb = RestoreArr(@, d.x_lb_idx, d.n_lb, I(0)),
              !.z_ub = RestoreArr(@, d.x_ub_idx, d.n_ub, I(0)),
              !.s_lb = RestoreArr(@, d.x_lb_idx, d.n_lb, PInf),
              !.s_ub = RestoreArr(@, d.x_ub_idx, d.n_ub, PInf),
              !.nu_lb = RestoreArr(@, d.x_lb_idx, d.n_lb, I(0)),
              !.nu_ub = RestoreArr(@, d.x_ub_idx, d.n_ub, I(0))]

\* Every result vector goes through the preconditioner's unscale once more:
\* level counts the scalings still applied (1 in the loop, 0 in user units).
\* Vectors of size 0 (a solver never set up) have nothing to unscale.
unscale_results(r) ==
    IF Len(r.s) + Len(r.z_lb) = 0 THEN r ELSE [r EXCEPT !.level = @ - 1]

\* ------------------------------------------------------------------------
\* Settings, problems and environments
\* ------------------------------------------------------------------------

MaxN == 2               \* largest number of variables of a box-bounded problem
MaxCalls == 3           \* API calls (setup, update, solve) in one run
MaxBoxCalls == 2        \* API calls in one run of the box-bounded environment
MaxIterDeep == 7        \* max_iter of the environment without inequalities
MaxIterIP == 2          \* max_iter of the environment with one inequality
MaxRetries == 1         \* max_factor_retires of the retrying environments
MaxFails == 2           \* factorize() calls that fail during one run
MaxRestoreN == 3        \* largest n of the problems whose box duals are restored
MaxDim == 3             \* largest dimension of the generated sparse matrices

Settings(rho_init, delta_init, reg_lower_limit, feas_tol_abs, feas_tol_rel, dual_tol, tau, max_iter, max_factor_retires) ==
    [rho_init |-> rho_init, delta_init |-> delta_init,
     reg_lower_limit |-> reg_lower_limit, feas_tol_abs |-> feas_tol_abs,
     feas_tol_rel |-> feas_tol_rel, dual_tol |-> dual_tol, tau |-> tau,
     max_iter |-> max_iter, max_factor_retires |-> max_factor_retires]

\* Settings::verify_settings(): the ranges the driver relies on.
verify_settings(st) ==
    /\ FGt(st.rho_init, I(0))
    /\ FGt(st.delta_init, I(0))
    /\ FGt(st.reg_lower_limit, I(0))
    /\ FGt(st.feas_tol_abs, I(0))
    /\ FLe(I(0), st.feas_tol_rel)
    /\ FGt(st.dual_tol, I(0))
    /\ FGt(st.tau, I(0)) /\ FLt(st.tau, I(1))
    /\ st.max_iter >= 0
    /\ st.max_factor_retires >= 0

\* A problem as setup receives it: the dimensions and the optional bounds.
Problem(n, m, x_lb, x_ub) == [n |-> n, m |-> m, x_lb |-> x_lb, x_ub |-> x_ub]

\* The arguments of update: which of P, c, A, b, G, h are supplied, and the
\* optional bounds.
UpdateArgs(given, x_lb, x_ub, reuse) ==
    [given |-> given, x_lb |-> x_lb, x_ub |-> x_ub, reuse |-> reuse]

Comps == {"P", "c", "A", "b", "G", "h", "x_lb", "x_ub"}

\* Bound entries of setup: the two sentinels and an ordinary value.
BoundVals == {BVal(-1, 0), BVal(0, -1), BVal(1, 0)}

\* Bound entries of update: beyond a sentinel, and an ordinary value.
UpdateLower == {BVal(-2, 0), BVal(0, 2)}
UpdateUpper == {BVal(0, 2), BVal(2, 0)}

BoundVecs(n) == [1..n -> BoundVals]

\* rho_init = delta_init = 4, reg_lower_limit = 2, feas_tol_abs = 5 (x 1e-13)
BaseSettings(max_iter, retries) ==
    Settings(I(4), I(4), I(2), I(5), I(0), I(1), Rat(1, 2), max_iter, retries)

InvalidSettings == [BaseSettings(1, 0) EXCEPT !.tau = I(1)]

\* No inequalities, no bounds (N = 0): long runs of the outer loop.
\* A point by the norms update_nr_residuals computes at it: of rx_nr, of
\* (ry_nr, rz_nr, rz_lb_nr, rz_ub_nr), and the two relative norms.
Point(dual_nr, primal_nr, rel) ==
    [dual_nr |-> I(dual_nr), primal_nr |-> I(primal_nr),
     rel_primal |-> I(rel), rel_dual |-> I(rel)]

EnvEq ==
    [name |-> "eq",
     problems |-> {Problem(1, 0, None, None)},
     updates |-> {UpdateArgs({"c"}, None, None, TRUE)},
     settings |-> {BaseSettings(MaxIterDeep, MaxRetries), BaseSettings(1, MaxRetries),
                   InvalidSettings},
     kkt0 |-> {I(1)},
     pdirs |-> {I(1)},
     cdirs |-> {I(1)},
     points |-> {Point(4, 4, 0), Point(8, 4, 0), Point(8, 8, 0)},
     norms |-> {I(4), I(8)},
     proxs |-> {I(2)},
     asserts |-> {FALSE},
     calls |-> MaxCalls]

\* One inequality (N = 1): the exact step-length and mu-rate arithmetic over
\* several passes, with rho_init = delta_init = reg_lower_limit.
EnvIp ==
    [name |-> "ip",
     problems |-> {Problem(1, 1, None, None)},
     updates |-> {UpdateArgs({"P", "h"}, None, None, FALSE)},
     settings |-> {[BaseSettings(MaxIterIP, 0) EXCEPT !.rho_init = I(2),
                                                     !.delta_init = I(2)],
                   [InvalidSettings EXCEPT !.rho_init = I(2), !.delta_init = I(2)]},
     kkt0 |-> {I(-1), I(0), I(1)},
     pdirs |-> {I(-1)},
     cdirs |-> {I(-2), I(1)},
     points |-> {Point(4, 4, 0), Point(3, 3, 0)},
     norms |-> {I(4)},
     proxs |-> {I(2)},
     asserts |-> {FALSE},
     calls |-> MaxCalls]

\* One lower and one upper bound (N = 2): the initial iterate.
EnvIp2 ==
    [name |-> "ip2",
     problems |-> {Problem(2, 0, Some(<<BVal(-1, 0), BVal(0, -1)>>),
                                 Some(<<BVal(1, 0), BVal(0, 3)>>))},
     updates |-> {UpdateArgs({}, None, Some(<<BVal(1, 0), BVal(0, -1)>>), TRUE)},
     settings |-> {BaseSettings(1, 0),
                   [BaseSettings(1, 0) EXCEPT !.rho_init = I(1)],
                   InvalidSettings},
     kkt0 |-> {I(-1), I(0), I(1)},
     pdirs |-> {I(-1)},
     cdirs |-> {I(-1)},
     points |-> {Point(8, 8, 1)},
     norms |-> {I(4)},
     proxs |-> {I(2)},
     asserts |-> {FALSE, TRUE},
     calls |-> MaxCalls]

\* No inequalities, no bounds, a floor of 0.5e-13 for rho and delta, and
\* points that never improve: the stagnation step of lines 513-519.
EnvStall ==
    [name |-> "stall",
     problems |-> {Problem(1, 0, None, None)},
     updates |-> {UpdateArgs({"b"}, None, None, TRUE)},
     settings |-> {[BaseSettings(MaxIterDeep, 0) EXCEPT !.reg_lower_limit = Rat(1, 2)]},
     kkt0 |-> {I(1)},
     pdirs |-> {I(1)},
     cdirs |-> {I(1)},
     points |-> {Point(8, 8, 0)},
     norms |-> {I(8)},
     proxs |-> {I(2)},
     asserts |-> {FALSE},
     calls |-> 2]

\* Every lower bound vector of every length up to MaxN with the opposite
\* upper bounds, the one-sided and the unbounded problems; updates of one side.
EnvBox ==
    [name |-> "box",
     problems |-> UNION {
         {Problem(n, 1, Some(v), Some([k \in 1..n |-> BNeg(v[k])])) : v \in BoundVecs(n)}
         \cup {Problem(n, 1, Some([k \in 1..n |-> BVal(0, k)]), None),
               Problem(n, 1, None, Some([k \in 1..n |-> BVal(0, k + 3)])),
               Problem(n, 1, Some([k \in 1..n |-> BVal(0, k)]),
                             Some([k \in 1..n |-> BVal(0, k + 3)])),
               Problem(n, 1, None, None)} : n \in 0..MaxN},
     updates |-> {UpdateArgs({"A"}, Some(v), None, TRUE) : v \in [1..MaxN -> UpdateLower]}
                 \cup {UpdateArgs({}, None, Some(v), TRUE) : v \in [1..MaxN -> UpdateUpper]}
                 \cup {UpdateArgs({"P", "G", "c", "h"}, None, None, FALSE),
                       UpdateArgs({"P", "A", "G", "c", "b", "h"},
                                  Some([k \in 1..MaxN |-> BVal(0, 2)]),
                                  Some([k \in 1..MaxN |-> BVal(0, 2)]), TRUE)},
     settings |-> {BaseSettings(1, 0), InvalidSettings},
     kkt0 |-> {I(1)},
     pdirs |-> {I(-1)},
     cdirs |-> {I(1)},
     points |-> {Point(4, 4, 0)},
     norms |-> {I(4)},
     proxs |-> {I(2)},
     asserts |-> {FALSE},
     calls |-> MaxBoxCalls]

\* ------------------------------------------------------------------------
\* permute_sparse_symmetric_matrix on upper-triangular matrices.  A matrix is
\* the sequence of its stored nonzeros [r, c, v] in compressed-column order.
\* ------------------------------------------------------------------------

Entry(r, c, v) == [r |-> r, c |-> c, v |-> v]

\* Position of a nonzero in compressed-column order among the nonzeros S
CscPos(S, e) ==
    Cardinality({f \in S : f.c < e.c \/ (f.c = e.c /\ f.r < e.r)})

\* makeCompressed(): the nonzeros S in compressed-column order
Compress(S) ==
    [k \in 1..Cardinality(S) |-> CHOOSE e \in S : CscPos(S, e) = k - 1]

\* The inverse of an ordering: where each old index goes
InversePerm(perm) ==
    [i \in 1..Len(perm) |-> CHOOSE j \in 0..(Len(perm) - 1) : At(perm, j) = i - 1]

\* The nonzero moved with the ordering itself in place of its inverse
PermuteEntry_Forward(e, perm) ==
    LET i == At(perm, e.r)
        j == At(perm, e.c)
    IN  Entry(IF i <= j THEN i ELSE j, IF i <= j THEN j ELSE i, e.v)

\* The nonzero A(r, c) in C: at (inv r, inv c), mirrored into the upper
\* triangle
PermuteEntry(e, perm) ==
    LET i == At(InversePerm(perm), e.r)
        j == At(InversePerm(perm), e.c)
    IN  Entry(IF i <= j THEN i ELSE j, IF i <= j THEN j ELSE i, e.v)

permute_sparse_symmetric_matrix(A, perm) ==
    LET moved == {PermuteEntry(A[k], perm) : k \in 1..Len(A)}
    IN  [C |-> Compress(moved),
         Ai_to_Ci |-> [k \in 1..Len(A) |-> CscPos(moved, PermuteEntry(A[k], perm))]]

\* NaturalOrdering of dimension n
NaturalOrdering(n) == [k \in 1..n |-> k - 1]

\* The matrix of TEST(Ordering, AMD) and the ordering AMD finds for it
AmdTestMatrix ==
    Compress({Entry(0, 0, 1), Entry(0, 2, 2), Entry(0, 3, 3), Entry(1, 1, 4),
              Entry(1, 3, 5), Entry(2, 2, 6), Entry(3, 3, 7)})

AmdTestOrdering == <<1, 2, 0, 3>>

\* Upper-triangular matrices of dimension n with a full diagonal, any
\* pattern above it and pairwise distinct values
UpperMatrices(n) ==
    {Compress({Entry(k, k, 11 * k + 1) : k \in 0..(n - 1)}
              \cup {Entry(q[1], q[2], 10 * q[1] + q[2] + 1) : q \in off}) :
        off \in SUBSET {q \in (0..(n - 1)) \X (0..(n - 1)) : q[1] < q[2]}}

Orderings(n) ==
    {p \in [1..n -> 0..(n - 1)] : \A i, j \in 1..n : p[i] = p[j] => i = j}

SparseCall(A, perm) ==
    [A |-> A, perm |-> perm, C |-> <<>>, Ai_to_Ci |-> <<>>, done |-> FALSE, used |-> TRUE]

NoSparse ==
    [A |-> <<>>, perm |-> <<>>, C |-> <<>>, Ai_to_Ci |-> <<>>, done |-> FALSE, used |-> FALSE]

\* ------------------------------------------------------------------------
\* Initial state: a default-constructed solver
\* ------------------------------------------------------------------------

InitInfo ==
    [status |-> "UNSOLVED", iter |-> 0, rho |-> I(0), delta |-> I(0),
     reg_limit |-> I(0), factor_retires |-> 0,
     no_primal_update |-> 0, no_dual_update |-> 0,
     mu |-> I(0), sigma |-> I(0), primal_step |-> I(0), dual_step |-> I(0),
     primal_inf |-> I(0), dual_inf |-> I(0)]

InitData ==
    [n |-> 0, m |-> 0, n_lb |-> 0, n_ub |-> 0,
     x_lb_n |-> <<>>, x_lb_idx |-> <<>>, x_ub |-> <<>>, x_ub_idx |-> <<>>]

InitRes ==
    [s |-> <<>>, z |-> <<>>, s_lb |-> <<>>, z_lb |-> <<>>, s_ub |-> <<>>, z_ub |-> <<>>,
     nu |-> <<>>, nu_lb |-> <<>>, nu_ub |-> <<>>, level |-> 0]

InitHist(asserts) ==
    [asserts |-> asserts,   \* the build keeps eigen_assert (no NDEBUG)
     call |-> "none",       \* the API call in progress or last made
     calls |-> 0,           \* API calls made
     lb |-> None,           \* the x_lb last handed to setup_lb_data
     ub |-> None,           \* the x_ub last handed to setup_ub_data
     passes |-> 0,          \* passes of the outer loop begun by this solve
     fails |-> 0,           \* failed factorize() calls since the last success
     failed |-> 0,          \* failed factorize() calls of this run
     retry |-> FALSE,       \* a failed factorize() was answered by the retry
                            \* branch and factorize() was not called since
     iter0 |-> 0,           \* info.iter at the head of the pass in progress
     formed |-> FALSE,      \* the pass in progress reached lines 480-508
     rp |-> I(0),           \* there: the norm of (ry, rz, rz_lb, rz_ub),
     rd |-> I(0),           \* the norm of rx,
     npu |-> 0,             \* no_primal_update
     ndu |-> 0,             \* and no_dual_update
     retries |-> 0,         \* retry branches taken by the solve in progress
     supplied |-> {},       \* the components handed to the update in progress
     flags |-> {}]          \* the options it handed to KKT.update_data

InitWith(e) ==
    /\ sparse = NoSparse
    /\ env = e.name
    /\ pc = "idle"
    /\ setup_done = FALSE
    /\ kkt_init_state = FALSE
    /\ settings \in e.settings
    /\ data = InitData
    /\ store = [c \in Comps |-> 0]
    /\ info = InitInfo
    /\ res = InitRes
    /\ nr = [dual |-> I(0), primal |-> I(0), rel_primal |-> I(0), rel_dual |-> I(0)]
    /\ pt = [dual_nr |-> I(0), primal_nr |-> I(0), rel_primal |-> I(0), rel_dual |-> I(0),
             prox_primal |-> I(0), prox_dual |-> I(0)]
    /\ kkt = [rho |-> I(0), delta |-> I(0), fact |-> FALSE]
    /\ oplog = <<>>
    /\ \E a \in e.asserts : hist = InitHist(a)

\* The input domains of the run in progress
Env ==
    CASE env = "eq" -> EnvEq
      [] env = "ip" -> EnvIp
      [] env = "ip2" -> EnvIp2
      [] env = "stall" -> EnvStall
      [] env = "box" -> EnvBox

Init == \E e \in {EnvEq, EnvIp, EnvIp2, EnvStall} : InitWith(e)

InitBox == InitWith(EnvBox)

\* ------------------------------------------------------------------------
\* setup and update
\* ------------------------------------------------------------------------

\* Eigen's resize(n): the content is kept when the size does not change.
Resize(arr, n, fill) == IF Len(arr) = n THEN arr ELSE Filled(n, fill)

\* The record of the infeasibility tests is dropped
NoTests(h) == [h EXCEPT !.formed = FALSE, !.rp = I(0), !.rd = I(0),
                        !.npu = 0, !.ndu = 0]

BeginCall(name) == [NoTests(hist) EXCEPT !.call = name, !.calls = @ + 1,
                                         !.passes = 0, !.fails = 0,
                                         !.retry = FALSE, !.iter0 = 0,
                                         !.retries = 0,
                                         !.supplied = {}, !.flags = {}]

\* init_workspace (lines 252-301)
init_workspace(n, m, r) ==
    [r EXCEPT !.s = Resize(@, m, I(0)), !.z = Resize(@, m, I(0)),
              !.s_lb = Resize(@, n, I(0)), !.z_lb = Resize(@, n, I(0)),
              !.s_ub = Resize(@, n, I(0)), !.z_ub = Resize(@, n, I(0)),
              !.nu = Resize(@, m, I(0)),
              !.nu_lb = Resize(@, n, I(0)), !.nu_ub = Resize(@, n, I(0))]

\* setup_impl (lines 152-210)
Setup ==
    /\ pc = "idle"
    /\ hist.calls < Env.calls
    /\ \E q \in Env.problems :
        LET d0 == [data EXCEPT !.n = q.n, !.m = q.m,
                               !.x_lb_n = Resize(@, q.n, NoVal),
                               !.x_ub = Resize(@, q.n, NoVal),
                               !.x_lb_idx = Resize(@, q.n, NoIdx),
                               !.x_ub_idx = Resize(@, q.n, NoIdx)]
            rho0 == settings.rho_init
            delta0 == settings.delta_init
        IN  /\ data' = setup_ub_data(setup_lb_data(d0, q.x_lb), q.x_ub)
            /\ res' = init_workspace(q.n, q.m, res)
            /\ info' = [info EXCEPT !.rho = rho0, !.delta = delta0]
            /\ store' = [c \in Comps |-> 1]
            /\ kkt' = [rho |-> rho0, delta |-> delta0, fact |-> FALSE]
            /\ oplog' = <<"pre.init", "pre.scale_data", "kkt.init">>
            /\ hist' = [BeginCall("setup") EXCEPT !.lb = q.x_lb, !.ub = q.x_ub]
    /\ kkt_init_state' = TRUE
    /\ setup_done' = TRUE
    /\ UNCHANGED <<sparse, env, pc, settings, nr, pt>>

\* The order in which update tests and writes the components
WriteOrder == <<"P", "A", "G", "c", "b", "h", "x_lb", "x_ub">>

\* The writes of an update to the data store, in order
Writes(written) ==
    LET kept == SelectSeq(WriteOrder, LAMBDA c : c \in written)
    IN  [k \in 1..Len(kept) |-> "data.write:" \o kept[k]]

\* The flags without KKT_UPDATE_G
UpdateOptions_NoG(u) == u.given \cap {"P", "A"}

\* The KKT_UPDATE_* flags of an update
UpdateOptions(u) == u.given \cap {"P", "A", "G"}

\* DenseSolver::update / SparseSolver::update (lines 846-928, 947-1044)
Update ==
    /\ pc = "idle"
    /\ hist.calls < Env.calls
    /\ \E u \in Env.updates :
        /\ (setup_done /\ u.x_lb.has) => Len(u.x_lb.v) = data.n
        /\ (setup_done /\ u.x_ub.has) => Len(u.x_ub.v) = data.n
        /\ IF ~setup_done
           THEN /\ pc' = IF hist.asserts THEN "aborted" ELSE "idle"
                /\ oplog' = <<>>
                /\ hist' = BeginCall("update")
                /\ UNCHANGED <<data, store, kkt>>
           ELSE LET unscaled == [c \in Comps |-> store[c] - 1]
                    written == u.given \cup (IF u.x_lb.has THEN {"x_lb"} ELSE {})
                                       \cup (IF u.x_ub.has THEN {"x_ub"} ELSE {})
                    d1 == IF u.x_lb.has THEN setup_lb_data(data, u.x_lb) ELSE data
                    d2 == IF u.x_ub.has THEN setup_ub_data(d1, u.x_ub) ELSE d1
                IN  /\ data' = d2
                    /\ store' = [c \in Comps |->
                                    (IF c \in written THEN 0 ELSE unscaled[c]) + 1]
                    /\ kkt' = [kkt EXCEPT !.fact = FALSE]
                    /\ oplog' = <<"pre.unscale_data">>
                                \o Writes(written)
                                \o <<"pre.scale_data", "kkt.update_data">>
                    /\ hist' = [BeginCall("update") EXCEPT
                                   !.lb = IF u.x_lb.has THEN u.x_lb ELSE @,
                                   !.ub = IF u.x_ub.has THEN u.x_ub ELSE @,
                                   !.supplied = written,
                                   !.flags = UpdateOptions(u)]
                    /\ pc' = "idle"
    /\ UNCHANGED <<sparse, env, setup_done, kkt_init_state, settings, info, res, nr, pt>>

\* settings(): the caller edits the settings between calls
ChangeSettings ==
    /\ pc = "idle"
    /\ \E st \in Env.settings : st # settings /\ settings' = st
    /\ UNCHANGED <<sparse, env, pc, setup_done, kkt_init_state, data, store, info, res,
                   nr, pt, kkt, oplog, hist>>

\* ------------------------------------------------------------------------
\* solve: entry, initial factorisation, initial iterate
\* ------------------------------------------------------------------------

Ones(k) == [j \in 1..k |-> I(1)]

\* KKT.update_scalings(rho, delta, s, z, ...): stages the scalings
update_scalings(k, i) == [k EXCEPT !.rho = i.rho, !.delta = i.delta, !.fact = FALSE]

\* Lines 325-333
ResetInfo(i, st) ==
    [i EXCEPT !.status = "UNSOLVED", !.iter = 0,
              !.reg_limit = st.reg_lower_limit, !.factor_retires = 0,
              !.no_primal_update = 0, !.no_dual_update = 0,
              !.mu = I(0), !.primal_step = I(0), !.dual_step = I(0)]

\* The early returns without the setup check
EarlyStatus_NoSetupCheck(done, st) ==
    IF ~verify_settings(st) THEN "INVALID_SETTINGS" ELSE "none"

\* Lines 312-323: the status of an early return of solve_impl, "none" when
\* the solve goes ahead
EarlyStatus(done, st) ==
    IF ~done THEN "UNSOLVED"
    ELSE IF ~verify_settings(st) THEN "INVALID_SETTINGS"
    ELSE "none"

\* solve() up to the first factorize() of solve_impl (lines 89-121, 303-349)
SolveBegin ==
    /\ pc = "idle"
    /\ hist.calls < Env.calls
    /\ hist' = BeginCall("solve")
    /\ IF EarlyStatus(setup_done, settings) = "UNSOLVED"
       THEN /\ IF hist.asserts
               THEN pc' = "aborted" /\ info' = info
               ELSE pc' = "ret" /\ info' = [info EXCEPT !.status = "UNSOLVED"]
            /\ oplog' = <<>>
            /\ UNCHANGED <<res, kkt>>
       ELSE IF EarlyStatus(setup_done, settings) = "INVALID_SETTINGS"
       THEN /\ info' = [info EXCEPT !.status = "INVALID_SETTINGS"]
            /\ pc' = "ret"
            /\ oplog' = <<>>
            /\ UNCHANGED <<res, kkt>>
       ELSE IF ~kkt_init_state
       THEN LET i1 == [ResetInfo(info, settings) EXCEPT
                          !.rho = settings.rho_init, !.delta = settings.delta_init]
            IN  /\ info' = i1
                /\ res' = WithSZ(data, res, Ones(NLive(data)), Ones(NLive(data)))
                /\ kkt' = update_scalings(kkt, i1)
                /\ oplog' = <<"kkt.update_scalings">>
                /\ pc' = "init_factor"
       ELSE /\ info' = ResetInfo(info, settings)
            /\ oplog' = <<>>
            /\ pc' = "init_factor"
            /\ UNCHANGED <<res, kkt>>
    /\ UNCHANGED <<sparse, env, setup_done, kkt_init_state, settings, data, store, nr, pt>>

\* What factorize() may return: either boolean, with at most MaxFails
\* failures during one run.
FactorizeResults == IF hist.failed < MaxFails THEN BOOLEAN ELSE {TRUE}

\* One evaluation of the condition of `while (!m_kkt.factorize())` with its
\* body (lines 351-366); ok is what factorize() returns.
InitFactorize ==
    /\ pc = "init_factor"
    /\ \E ok \in FactorizeResults :
        /\ oplog' = Append(oplog, IF ok THEN "kkt.factorize:ok" ELSE "kkt.factorize:fail")
        /\ kkt' = [kkt EXCEPT !.fact = ok]
        /\ IF ok
           THEN /\ info' = FactorizeOk(info)
                /\ hist' = [hist EXCEPT !.fails = 0, !.retry = FALSE]
                /\ pc' = "init_solve"
           ELSE IF CanRetry(info, settings)
           THEN /\ info' = RetryInflate(info, settings, 0)
                /\ hist' = [hist EXCEPT !.fails = @ + 1, !.failed = @ + 1,
                                        !.retry = TRUE, !.retries = @ + 1]
                /\ pc' = "init_factor"
           ELSE /\ info' = [info EXCEPT !.status = "NUMERICS"]
                /\ hist' = [hist EXCEPT !.fails = @ + 1, !.failed = @ + 1, !.retry = FALSE]
                /\ pc' = "ret"
    /\ UNCHANGED <<sparse, env, setup_done, kkt_init_state, settings, data, store, res, nr, pt>>

\* The two denominators of lines 400-401, (sum z + N * delta_z) and
\* (sum s + N * delta_s), for the live (s, z) the initial KKT solve returned
ShiftDenominators(s0, z0) ==
    LET n == Len(s0)
        tiny == FLe(InfNorm(s0), SmallSlack)
        s == IF tiny THEN [k \in 1..n |-> TenthConst] ELSE s0
        z == IF tiny THEN [k \in 1..n |-> TenthConst] ELSE z0
    IN  [of_s_bar |-> FAdd(FSum(z), FMul(I(n), ShiftOf(z))),
         of_z_bar |-> FAdd(FSum(s), FMul(I(n), ShiftOf(s)))]

\* The points the driver can find itself at: the norms update_nr_residuals
\* would compute there.
Points == Env.points

PointAt(q, prox_primal, prox_dual) ==
    [dual_nr |-> q.dual_nr, primal_nr |-> q.primal_nr,
     rel_primal |-> q.rel_primal, rel_dual |-> q.rel_dual,
     prox_primal |-> prox_primal, prox_dual |-> prox_dual]

\* The slacks a KKT solve recovers by back-substitution from the slack
\* right-hand side rs and the duals dz it found, under the staged scalings
\* s, z: the linearised complementarity z * ds + s * dz = rs.
SlackBackSubstitution(s, z, rs, dz) ==
    [k \in 1..Len(dz) |-> FDiv(FSub(rs[k], FMul(s[k], dz[k])), z[k])]

\* The initial KKT solve, the shift and the first proximal centres
\* (lines 368-429).  z0 are the live duals the solve returns; the scalings
\* staged at this point are s = z = 1 (from KKT.init, or from lines 340-348)
\* and rs = 0 (lines 374-376).
InitSolve ==
    /\ pc = "init_solve"
    /\ \E z0 \in [1..NLive(data) -> Env.kkt0], q \in Points :
        LET s0 == SlackBackSubstitution(Ones(NLive(data)), Ones(NLive(data)),
                                        [k \in 1..NLive(data) |-> I(0)], z0)
            sz == IF NLive(data) > 0 THEN InitialShift(s0, z0) ELSE [s |-> s0, z |-> z0]
            r1 == WithSZ(data, res, sz.s, sz.z)
        IN  /\ res' = [r1 EXCEPT !.nu = r1.z,
                                 !.nu_lb = WithHead(@, Head_(r1.z_lb, data.n_lb)),
                                 !.nu_ub = WithHead(@, Head_(r1.z_ub, data.n_ub)),
                                 !.level = 1]
            /\ info' = IF NLive(data) > 0
                       THEN [info EXCEPT !.mu = MuOf(data, sz.s, sz.z)]
                       ELSE info
            /\ pt' = PointAt(q, I(0), I(0))
    /\ oplog' = Append(oplog, "kkt.solve")
    /\ pc' = "loop"
    /\ UNCHANGED <<sparse, env, setup_done, kkt_init_state, settings, data, store, nr, kkt, hist>>

\* ------------------------------------------------------------------------
\* solve: the outer loop
\* ------------------------------------------------------------------------

\* update_nr_residuals (lines 737-788): the unscaled norms at the point p
update_nr_residuals(p) ==
    [dual |-> p.dual_nr, primal |-> p.primal_nr,
     rel_primal |-> p.rel_primal, rel_dual |-> p.rel_dual]

\* The head of a pass that never recomputes
HeadResiduals_Kept(i, p, n) == n

\* Lines 433-436: the non-regularised residuals at the head of a pass
HeadResiduals(i, p, n) == IF i.iter = 0 THEN update_nr_residuals(p) ELSE n

\* The norms the regularised residuals of lines 480-484 can have: with a zero
\* proximal distance they are the unregularised ones.
RegResiduals(dist, plain) == IF dist = I(0) THEN {plain} ELSE Env.norms

\* The loop condition with <= for <
LoopCondition_Inclusive(i, st) == i.iter <= st.max_iter

\* Line 431: the condition of the outer loop
LoopCondition(i, st) == i.iter < st.max_iter

\* Lines 431-524 and 733-734: the loop condition and a pass up to its
\* factorize() call.
LoopHead ==
    /\ pc = "loop"
    /\ IF ~LoopCondition(info, settings)
       THEN /\ info' = [info EXCEPT !.status = "MAX_ITER_REACHED"]
            /\ pc' = "ret"
            /\ UNCHANGED <<kkt_init_state, nr, kkt, oplog, hist>>
       ELSE LET nr1 == HeadResiduals(info, pt, nr)
                i1 == [info EXCEPT !.primal_inf = nr1.primal, !.dual_inf = nr1.dual]
                h1 == [hist EXCEPT !.passes = @ + 1, !.iter0 = info.iter]
            IN  /\ nr' = nr1
                /\ IF Converged(i1, nr1, settings)
                   THEN /\ info' = [i1 EXCEPT !.status = "SOLVED"]
                        /\ hist' = h1
                        /\ pc' = "ret"
                        /\ UNCHANGED <<kkt_init_state, kkt, oplog>>
                   ELSE \E rp \in RegResiduals(pt.prox_dual, nr1.primal),
                      rd \in RegResiduals(pt.prox_primal, nr1.dual) :
                    /\ hist' = [h1 EXCEPT !.formed = TRUE, !.rp = rp, !.rd = rd,
                                          !.npu = i1.no_primal_update,
                                          !.ndu = i1.no_dual_update]
                    /\ IF PrimalInfeasible(i1, pt, rp, settings)
                       THEN /\ info' = [i1 EXCEPT !.status = "PRIMAL_INFEASIBLE"]
                            /\ pc' = "ret"
                            /\ UNCHANGED <<kkt_init_state, kkt, oplog>>
                       ELSE IF DualInfeasible(i1, pt, rd, settings)
                       THEN /\ info' = [i1 EXCEPT !.status = "DUAL_INFEASIBLE"]
                            /\ pc' = "ret"
                            /\ UNCHANGED <<kkt_init_state, kkt, oplog>>
                       ELSE LET i2 == ApplyStallReset([i1 EXCEPT !.iter = @ + 1])
                            IN  /\ info' = i2
                                /\ kkt' = update_scalings(kkt, i2)
                                /\ kkt_init_state' = FALSE
                                /\ oplog' = <<"kkt.update_scalings">>
                                /\ pc' = "factor"
    /\ UNCHANGED <<sparse, env, setup_done, settings, data, store, res, pt>>

\* Lines 525-543: factorize() in the pass and the branch on its result
LoopFactorize ==
    /\ pc = "factor"
    /\ \E ok \in FactorizeResults :
        /\ oplog' = Append(oplog, IF ok THEN "kkt.factorize:ok" ELSE "kkt.factorize:fail")
        /\ kkt' = [kkt EXCEPT !.fact = ok]
        /\ IF ok
           THEN /\ info' = FactorizeOk(info)
                /\ hist' = [NoTests(hist) EXCEPT !.fails = 0, !.retry = FALSE]
                /\ pc' = "step"
           ELSE IF CanRetry(info, settings)
           THEN /\ info' = RetryInflate(info, settings, 1)
                /\ hist' = [NoTests(hist) EXCEPT !.fails = @ + 1, !.failed = @ + 1,
                                                 !.retry = TRUE, !.retries = @ + 1]
                /\ pc' = "loop"
           ELSE /\ info' = [info EXCEPT !.status = "NUMERICS"]
                /\ hist' = [NoTests(hist) EXCEPT !.fails = @ + 1, !.failed = @ + 1, !.retry = FALSE]
                /\ pc' = "ret"
    /\ UNCHANGED <<sparse, env, setup_done, kkt_init_state, settings, data, store, res, nr, pt>>

\* Lines 595-599: sigma from the predictor direction
Sigma(d, s, z, ds, dz, alpha_s, alpha_z, mu) ==
    LET q == FDiv(Dot(Axpy(s, alpha_s, ds), Axpy(z, alpha_z, dz)),
                  FMul(mu, I(NLive(d))))
    IN  FMul(FMul(q, q), q)

\* Lines 666 / 709 and 681 / 720: did the new unregularised residual shrink
PrimalProgress(i, n1) == FLt(n1.dual, FMul(Progress, i.dual_inf))
DualProgress(i, n1) == FLt(n1.primal, FMul(Progress, i.primal_inf))

\* Lines 666-675 / 709-718 on info
UpdateRho(i, progress, factor) ==
    [i EXCEPT !.rho = RegDecay(i.reg_limit, factor, @),
              !.no_primal_update = IF progress THEN @ ELSE @ + 1]

\* The dual branch counting on the primal counter
UpdateDelta_WrongCounter(i, progress, factor) ==
    [i EXCEPT !.delta = RegDecay(i.reg_limit, factor, @),
              !.no_primal_update = IF progress THEN @ ELSE @ + 1]

\* Lines 681-693 / 720-729 on info
UpdateDelta(i, progress, factor) ==
    [i EXCEPT !.delta = RegDecay(i.reg_limit, factor, @),
              !.no_dual_update = IF progress THEN @ ELSE @ + 1]

\* The dual centres left where they are
WithCentres_Kept(d, r) == r

\* m_result with the dual centres of the inequalities moved to the duals
\* (lines 684-686)
WithCentres(d, r) ==
    [r EXCEPT !.nu = r.z,
              !.nu_lb = WithHead(@, Head_(r.z_lb, d.n_lb)),
              !.nu_ub = WithHead(@, Head_(r.z_ub, d.n_ub))]

\* A step without its corrector solve
StepSolves_PredictorOnly(d) == <<"kkt.solve">>

\* Lines 552 and 606, or 698: the KKT solves of a step
StepSolves(d) ==
    IF NLive(d) > 0 THEN <<"kkt.solve", "kkt.solve">> ELSE <<"kkt.solve">>

\* Lines 545-730: the rest of a pass after a successful factorize().  q is
\* the point the step leads to, pp and pd its distances to centres that stay.
Step ==
    /\ pc = "step"
    /\ \E q \in Points, pp \in Env.proxs, pd \in Env.proxs :
        LET n1 == update_nr_residuals(q)
            pprog == PrimalProgress(info, n1)
            dprog == DualProgress(info, n1)
        IN  /\ nr' = n1
            /\ pt' = PointAt(q, IF pprog THEN I(0) ELSE pp, IF dprog THEN I(0) ELSE pd)
            /\ IF NLive(data) > 0
               THEN \E ds1 \in [1..NLive(data) -> Env.pdirs],
                       dz1 \in [1..NLive(data) -> Env.pdirs],
                       ds2 \in [1..NLive(data) -> Env.cdirs],
                       dz2 \in [1..NLive(data) -> Env.cdirs] :
                    LET s == LiveS(data, res)
                        z == LiveZ(data, res)
                        alpha_s == FMul(StepToBoundary(s, ds1), settings.tau)
                        alpha_z == FMul(StepToBoundary(z, dz1), settings.tau)
                        sigma == Sigma(data, s, z, ds1, dz1, alpha_s, alpha_z, info.mu)
                        primal_step == FMul(StepToBoundary(s, ds2), settings.tau)
                        dual_step == FMul(StepToBoundary(z, dz2), settings.tau)
                        s1 == Axpy(s, primal_step, ds2)
                        z1 == Axpy(z, dual_step, dz2)
                        mu_prev == info.mu
                        mu == MuOf(data, s1, z1)
                        mu_rate == MuRate(mu_prev, mu)
                        i1 == [info EXCEPT !.sigma = sigma, !.primal_step = primal_step,
                                           !.dual_step = dual_step, !.mu = mu]
                        i2 == UpdateRho(i1, pprog, MuFactor(pprog, mu_rate))
                        r1 == WithSZ(data, res, s1, z1)
                    IN  /\ info' = UpdateDelta(i2, dprog, MuFactor(dprog, mu_rate))
                        /\ res' = IF dprog THEN WithCentres(data, r1) ELSE r1
                        /\ oplog' = oplog \o StepSolves(data)
               ELSE LET i1 == [info EXCEPT !.primal_step = I(1), !.dual_step = I(1)]
                        i2 == UpdateRho(i1, pprog, EqFactor(pprog))
                    IN  /\ info' = UpdateDelta(i2, dprog, EqFactor(dprog))
                        /\ res' = res
                        /\ oplog' = oplog \o StepSolves(data)
    /\ pc' = "loop"
    /\ UNCHANGED <<sparse, env, setup_done, kkt_init_state, settings, data, store, kkt, hist>>

\* solve() after solve_impl() returned (lines 123-124)
Return ==
    /\ pc = "ret"
    /\ res' = restore_box_dual(data, unscale_results(res))
    /\ pc' = "idle"
    /\ UNCHANGED <<sparse, env, setup_done, kkt_init_state, settings, data, store, info,
                   nr, pt, kkt, oplog, hist>>

Next ==
    \/ Setup
    \/ Update
    \/ ChangeSettings
    \/ SolveBegin
    \/ InitFactorize
    \/ InitSolve
    \/ LoopHead
    \/ LoopFactorize
    \/ Step
    \/ Return

Spec == Init /\ [][Next]_vars

SpecBox == InitBox /\ [][Next]_vars

\* ------------------------------------------------------------------------
\* restore_box_dual on its own: solve_impl has just returned on a problem
\* with any pattern of active bounds, the heads of the box arrays holding
\* distinguishable compressed values and their tails leftovers.
\* ------------------------------------------------------------------------

\* A bound vector with the entries of act finite and the others at the
\* sentinel on the deactivating side
BoundsWith(n, act, lower) ==
    Some([k \in 1..n |-> IF (k - 1) \in act THEN BVal(0, k)
                         ELSE IF lower THEN BNeg(PIQP_INF) ELSE PIQP_INF])

\* An array of length n: head of length cnt holding base + 1 .. base + cnt,
\* tail holding a leftover value
Compressed(n, cnt, base) ==
    [k \in 1..n |-> IF k <= cnt THEN I(base + k) ELSE I(-7)]

InitRestore ==
    /\ sparse = NoSparse
    /\ env = "box"
    /\ pc = "ret"
    /\ setup_done = TRUE
    /\ kkt_init_state = FALSE
    /\ settings = BaseSettings(1, 0)
    /\ \E n \in 0..MaxRestoreN :
         \E lb \in SUBSET (0..(n - 1)), ub \in SUBSET (0..(n - 1)) :
            LET d0 == [InitData EXCEPT !.n = n,
                                      !.x_lb_n = Filled(n, NoVal),
                                      !.x_ub = Filled(n, NoVal),
                                      !.x_lb_idx = Filled(n, NoIdx),
                                      !.x_ub_idx = Filled(n, NoIdx)]
                d == setup_ub_data(setup_lb_data(d0, BoundsWith(n, lb, TRUE)),
                                   BoundsWith(n, ub, FALSE))
            IN  /\ data = d
                /\ res = [InitRes EXCEPT
                              !.z_lb = Compressed(n, d.n_lb, 0),
                              !.s_lb = Compressed(n, d.n_lb, 10),
                              !.nu_lb = Compressed(n, d.n_lb, 20),
                              !.z_ub = Compressed(n, d.n_ub, 30),
                              !.s_ub = Compressed(n, d.n_ub, 40),
                              !.nu_ub = Compressed(n, d.n_ub, 50),
                              !.level = 1]
                /\ hist = [InitHist(FALSE) EXCEPT
                               !.call = "solve", !.calls = 2, !.passes = 1,
                               !.lb = BoundsWith(n, lb, TRUE),
                               !.ub = BoundsWith(n, ub, FALSE)]
    /\ store = [c \in Comps |-> 1]
    /\ info = [InitInfo EXCEPT !.status = "SOLVED", !.rho = I(4), !.delta = I(4),
                               !.reg_limit = I(2)]
    /\ nr = [dual |-> I(4), primal |-> I(4), rel_primal |-> I(0), rel_dual |-> I(0)]
    /\ pt = PointAt(Point(4, 4, 0), I(0), I(0))
    /\ kkt = [rho |-> I(4), delta |-> I(4), fact |-> TRUE]
    /\ oplog = <<"kkt.update_scalings", "kkt.factorize:ok", "kkt.solve">>

SpecRestore == InitRestore /\ [][Return]_vars

\* ------------------------------------------------------------------------
\* permute_sparse_symmetric_matrix on its own
\* ------------------------------------------------------------------------

InitOrdering ==
    /\ env = "box"
    /\ pc = "idle"
    /\ setup_done = FALSE
    /\ kkt_init_state = FALSE
    /\ settings = BaseSettings(1, 0)
    /\ data = InitData
    /\ store = [c \in Comps |-> 0]
    /\ info = InitInfo
    /\ res = InitRes
    /\ nr = [dual |-> I(0), primal |-> I(0), rel_primal |-> I(0), rel_dual |-> I(0)]
    /\ pt = PointAt(Point(0, 0, 0), I(0), I(0))
    /\ kkt = [rho |-> I(0), delta |-> I(0), fact |-> FALSE]
    /\ oplog = <<>>
    /\ hist = InitHist(FALSE)
    /\ \/ \E n \in 1..MaxDim : \E A \in UpperMatrices(n), perm \in Orderings(n) :
            sparse = SparseCall(A, perm)
       \/ \E perm \in {NaturalOrdering(4), AmdTestOrdering} :
            sparse = SparseCall(AmdTestMatrix, perm)

Permute ==
    /\ sparse.used /\ ~sparse.done
    /\ LET out == permute_sparse_symmetric_matrix(sparse.A, sparse.perm)
       IN  sparse' = [sparse EXCEPT !.C = out.C, !.Ai_to_Ci = out.Ai_to_Ci,
                                    !.done = TRUE]
    /\ UNCHANGED <<env, pc, setup_done, kkt_init_state, settings, data, store,
                   info, res, nr, pt, kkt, oplog, hist>>

SpecOrdering == InitOrdering /\ [][Permute]_vars

\* ------------------------------------------------------------------------
\* Properties
\* ------------------------------------------------------------------------

\* Every live slack and dual component is strictly positive
LivePositive ==
    /\ \A k \in 1..NLive(data) : FGt(LiveS(data, res)[k], I(0))
    /\ \A k \in 1..NLive(data) : FGt(LiveZ(data, res)[k], I(0))

\* C1: with N > 0 (and tau in (0,1), which verify_settings guarantees inside
\* solve_impl), at the end of every pass of the outer loop that performed the
\* iterate update every live component of s and z is strictly positive,
\* whatever the KKT solves returned -- the first pass included, which starts
\* from the initial solve and the shift.
C1_PositiveAfterEveryPass ==
    (pc = "loop" /\ info.iter > 0 /\ NLive(data) > 0) => LivePositive

\* A pass ended whose corrector step was cut short by the boundary of the
\* orthant, from an iterate the shift had to move.
C1_Witness ==
    /\ pc = "loop" /\ info.iter > 0 /\ NLive(data) > 0
    /\ FLt(info.primal_step, settings.tau)
    /\ LivePositive

\* A step in which factorize() returned false with retries left
RetryStep ==
    /\ pc \in {"init_factor", "factor"}
    /\ hist'.failed = hist.failed + 1
    /\ info.factor_retires < settings.max_factor_retires

\* What the retry branch does to the state, as C2 lists it
RetryEffect ==
    /\ info'.rho = FMul(I(100), info.rho)
    /\ info'.delta = FMul(I(100), info.delta)
    /\ info'.reg_limit = (IF FLt(settings.feas_tol_abs, FMul(I(10), info.reg_limit))
                          THEN settings.feas_tol_abs
                          ELSE FMul(I(10), info.reg_limit))
    /\ info'.factor_retires = info.factor_retires + 1
    /\ res' = res /\ pt' = pt /\ nr' = nr
    /\ info'.iter = (IF pc = "factor" THEN hist.iter0 ELSE info.iter)
    /\ info'.status = info.status

\* C2 (as amended): a failed factorize() with retries left multiplies rho and
\* delta by 100, sets reg_limit to min(10 * reg_limit, feas_tol_abs), adds one
\* to factor_retires, leaves the iterate and the proximal centres alone and
\* leaves iter at its value at the head of the pass; the initial loop then
\* calls factorize() again at once, the outer loop re-enters the pass at its
\* head, and from there either reaches factorize() again or returns
\* PRIMAL_INFEASIBLE / DUAL_INFEASIBLE from the re-evaluated infeasibility
\* tests.
C2_RetryReentersPass ==
    [][/\ RetryStep => /\ RetryEffect
                       /\ pc' = (IF pc = "factor" THEN "loop" ELSE "init_factor")
       /\ (hist.retry /\ pc = "loop")
            => \/ pc' = "factor"
               \/ /\ pc' = "ret"
                  /\ info'.status \in {"PRIMAL_INFEASIBLE", "DUAL_INFEASIBLE"}]_vars

\* C2 (as stated): ... and after the retry branch the factorisation is
\* attempted again.
C2_RetryAttemptsAgain ==
    [][/\ RetryStep => /\ RetryEffect
                       /\ pc' = (IF pc = "factor" THEN "loop" ELSE "init_factor")
       /\ (hist.retry /\ pc = "loop") => pc' = "factor"]_vars

\* The outer loop answered a failed factorize() by the retry branch, after at
\* least one completed pass.
C2_Witness ==
    /\ pc = "loop" /\ hist.retry
    /\ info.iter > 0 /\ info.iter = hist.iter0
    /\ info.factor_retires > 0

\* The last operation asked of the KKT collaborator in this solve
LastOp == IF oplog = <<>> THEN "none" ELSE oplog[Len(oplog)]

\* C3: a returning solve carries NUMERICS exactly when its last factorize()
\* failed as the (max_factor_retires + 1)-th failure in a row, i.e. with
\* factor_retires = max_factor_retires; and right after every successful
\* factorize() factor_retires is 0.
C3_NumericsExactlyOnExhaustion ==
    /\ pc = "ret" =>
         /\ info.status = "NUMERICS"
              <=> /\ LastOp = "kkt.factorize:fail"
                  /\ hist.fails = settings.max_factor_retires + 1
         /\ info.status = "NUMERICS"
              => info.factor_retires = settings.max_factor_retires
    /\ pc \in {"init_factor", "init_solve", "loop", "factor", "step"}
         => info.status # "NUMERICS"
    /\ LastOp = "kkt.factorize:ok" => info.factor_retires = 0

\* A solve returns NUMERICS from the outer loop after a retry was spent.
C3_Witness ==
    /\ pc = "ret" /\ info.status = "NUMERICS"
    /\ settings.max_factor_retires > 0
    /\ info.factor_retires = settings.max_factor_retires
    /\ hist.passes > 0

\* A step of a running solve other than a factor retry
PlainSolveStep == pc \notin {"idle", "aborted", "ret"} /\ ~RetryStep

C5_RegularisationPositive ==
    (setup_done /\ pc # "idle") => FGt(info.rho, I(0)) /\ FGt(info.delta, I(0))

\* A later pass is about to step with rho still above rho_init, inflated by a
\* factor retry and then decayed.
C5_Witness ==
    /\ pc = "step" /\ info.iter > 1
    /\ FGt(info.rho, settings.rho_init)
    /\ FLt(info.rho, FMul(I(RetryFactor), settings.rho_init))

\* The convergence test on the values the result info and the solver hold
TestHolds ==
    /\ FLt(info.primal_inf,
           FAdd(settings.feas_tol_abs, FMul(settings.feas_tol_rel, nr.rel_primal)))
    /\ FLt(info.dual_inf,
           FAdd(settings.feas_tol_abs, FMul(settings.feas_tol_rel, nr.rel_dual)))
    /\ FLt(info.mu, settings.dual_tol)

\* C6: a solve returns SOLVED only from a pass whose convergence test holds of
\* the stored values, with iter not yet incremented for that pass; and a pass
\* that goes past its test, to an infeasibility verdict, to factorize() or to
\* NUMERICS, is one whose test failed.
C6_SolvedIffTestHolds ==
    /\ (pc = "ret" /\ info.status = "SOLVED")
         => hist.passes > 0 /\ TestHolds /\ info.iter = hist.iter0
    /\ (pc = "ret" /\ hist.passes > 0
          /\ info.status \in {"PRIMAL_INFEASIBLE", "DUAL_INFEASIBLE", "NUMERICS"})
         => ~TestHolds
    /\ pc = "factor" => ~TestHolds
    /\ pc \in {"init_factor", "init_solve", "loop", "factor", "step"}
         => info.status # "SOLVED"

\* A problem with inequalities is reported SOLVED after at least one step.
C6_Witness ==
    /\ pc = "ret" /\ info.status = "SOLVED"
    /\ info.iter > 0 /\ NLive(data) > 0
    /\ FGt(info.mu, I(0))

\* C7: the passes begun by a solve number at most
\* max_iter * (max_factor_retires + 1), iter never exceeds max_iter,
\* MAX_ITER_REACHED is returned with iter = max_iter, and a solve on a set-up
\* solver with valid settings returns one of the five terminal statuses.
C7_BoundedPasses ==
    (pc \notin {"idle", "aborted"} /\ setup_done /\ verify_settings(settings)) =>
        /\ hist.passes <= settings.max_iter * (settings.max_factor_retires + 1)
        /\ info.iter <= settings.max_iter
        /\ (pc = "ret" /\ info.status = "MAX_ITER_REACHED")
             => info.iter = settings.max_iter
        /\ pc = "ret"
             => info.status \in {"SOLVED", "MAX_ITER_REACHED", "PRIMAL_INFEASIBLE",
                                 "DUAL_INFEASIBLE", "NUMERICS"}

\* The loop ran out of iterations after using every pass the bound allows,
\* one of them a retry.
C7_Witness ==
    /\ pc = "ret" /\ info.status = "MAX_ITER_REACHED"
    /\ settings.max_factor_retires > 0
    /\ hist.passes = settings.max_iter * (settings.max_factor_retires + 1)

AboveMinusInf(v) == BGt(v, BNeg(PIQP_INF))
BelowPlusInf(v) == BLt(v, PIQP_INF)

\* The indices (0-based) of the entries of the lower bound vector above
\* -PIQP_INF, and of the upper bound vector below PIQP_INF
KeptLb ==
    IF hist.lb.has THEN {i \in 0..(data.n - 1) : AboveMinusInf(At(hist.lb.v, i))}
    ELSE {}
KeptUb ==
    IF hist.ub.has THEN {i \in 0..(data.n - 1) : BelowPlusInf(At(hist.ub.v, i))}
    ELSE {}

\* idx[0..cnt) lists exactly the set act in strictly increasing order
ListsInOrder(idx, cnt, act) ==
    /\ cnt = Cardinality(act)
    /\ {At(idx, k) : k \in 0..(cnt - 1)} = act
    /\ \A k \in 0..(cnt - 2) : At(idx, k) < At(idx, k + 1)
    /\ \A k \in 0..(cnt - 1) : At(idx, k) >= k /\ At(idx, k) < data.n

\* C9: after setup_lb_data, n_lb counts the entries above -PIQP_INF,
\* x_lb_idx[0..n_lb) lists their indices in strictly increasing order (each at
\* least its position) and x_lb_n[k] is the negated entry at x_lb_idx[k];
\* after setup_ub_data the same holds of the entries below PIQP_INF, stored as
\* given; an absent vector gives a count of 0.
C9_CompressedBounds ==
    setup_done =>
        /\ ListsInOrder(data.x_lb_idx, data.n_lb, KeptLb)
        /\ \A k \in 0..(data.n_lb - 1) :
              At(data.x_lb_n, k) = BNeg(At(hist.lb.v, At(data.x_lb_idx, k)))
        /\ ListsInOrder(data.x_ub_idx, data.n_ub, KeptUb)
        /\ \A k \in 0..(data.n_ub - 1) :
              At(data.x_ub, k) = At(hist.ub.v, At(data.x_ub_idx, k))
        /\ ~hist.lb.has => data.n_lb = 0
        /\ ~hist.ub.has => data.n_ub = 0

\* Two variables, the first with both bounds at the sentinel and the second
\* with both finite: only the second is listed.
C9_Witness ==
    /\ setup_done /\ data.n = 2 /\ hist.lb.has /\ hist.ub.has
    /\ ~AboveMinusInf(At(hist.lb.v, 0)) /\ AboveMinusInf(At(hist.lb.v, 1))
    /\ ~BelowPlusInf(At(hist.ub.v, 0)) /\ BelowPlusInf(At(hist.ub.v, 1))
    /\ data.n_lb = 1 /\ At(data.x_lb_idx, 0) = 1
    /\ data.n_ub = 1 /\ At(data.x_ub_idx, 0) = 1

\* |v| >= PIQP_INF
SentinelMagnitude(v) == ~BelowPlusInf(v) \/ ~AboveMinusInf(v)

ActiveLb == {At(data.x_lb_idx, k) : k \in 0..(data.n_lb - 1)}
ActiveUb == {At(data.x_ub_idx, k) : k \in 0..(data.n_ub - 1)}

\* C10 (as amended): a lower bound at or below -PIQP_INF and an upper bound at
\* or above +PIQP_INF are deactivated; a lower bound at or above +PIQP_INF and
\* an upper bound at or below -PIQP_INF stay active.
C10_SentinelSideDeactivated ==
    setup_done =>
        /\ \A i \in 0..(data.n - 1) :
              hist.lb.has =>
                  /\ ~AboveMinusInf(At(hist.lb.v, i)) => i \notin ActiveLb
                  /\ ~BelowPlusInf(At(hist.lb.v, i)) => i \in ActiveLb
        /\ \A i \in 0..(data.n - 1) :
              hist.ub.has =>
                  /\ ~BelowPlusInf(At(hist.ub.v, i)) => i \notin ActiveUb
                  /\ ~AboveMinusInf(At(hist.ub.v, i)) => i \in ActiveUb

\* C10 (as stated): every bound entry of magnitude >= PIQP_INF is deactivated.
C10_MagnitudeDeactivated ==
    setup_done =>
        /\ \A i \in 0..(data.n - 1) :
              (hist.lb.has /\ SentinelMagnitude(At(hist.lb.v, i))) => i \notin ActiveLb
        /\ \A i \in 0..(data.n - 1) :
              (hist.ub.has /\ SentinelMagnitude(At(hist.ub.v, i))) => i \notin ActiveUb

\* A lower bound of -PIQP_INF next to a finite one, an upper bound of
\* +PIQP_INF next to a finite one: one active entry each, at index 1.
C10_Witness ==
    /\ setup_done /\ data.n = 2 /\ hist.lb.has /\ hist.ub.has
    /\ At(hist.lb.v, 0) = BNeg(PIQP_INF) /\ At(hist.lb.v, 1).inf = 0
    /\ At(hist.ub.v, 0) = PIQP_INF /\ At(hist.ub.v, 1).inf = 0
    /\ ActiveLb = {1} /\ ActiveUb = {1}

\* The dense permutation law for one box array: the compressed entry k of
\* before sits at idx[k] in after, every other position holds fill.
DenseLaw(before, after, idx, cnt, fill) ==
    /\ Len(after) = Len(before)
    /\ \A k \in 0..(cnt - 1) : At(after, At(idx, k)) = At(before, k)
    /\ \A j \in 0..(Len(after) - 1) :
          j \notin {At(idx, k) : k \in 0..(cnt - 1)} => At(after, j) = fill

\* C11: restore_box_dual puts the compressed entry k of z_lb, s_lb, nu_lb at
\* position x_lb_idx[k] and fills every inactive position with 0 (z_lb,
\* nu_lb) or +infinity (s_lb); the same for z_ub, s_ub, nu_ub with x_ub_idx.
C11_DensePermutationLaw ==
    [][pc = "ret" =>
         /\ DenseLaw(res.z_lb, res'.z_lb, data.x_lb_idx, data.n_lb, I(0))
         /\ DenseLaw(res.s_lb, res'.s_lb, data.x_lb_idx, data.n_lb, PInf)
         /\ DenseLaw(res.nu_lb, res'.nu_lb, data.x_lb_idx, data.n_lb, I(0))
         /\ DenseLaw(res.z_ub, res'.z_ub, data.x_ub_idx, data.n_ub, I(0))
         /\ DenseLaw(res.s_ub, res'.s_ub, data.x_ub_idx, data.n_ub, PInf)
         /\ DenseLaw(res.nu_ub, res'.nu_ub, data.x_ub_idx, data.n_ub, I(0))]_vars

\* Three variables, lower bounds active on the last two: the two compressed
\* duals have moved up by one position and position 0 holds the fill.
C11_Witness ==
    /\ pc = "idle" /\ data.n = 3 /\ data.n_lb = 2
    /\ At(data.x_lb_idx, 0) = 1 /\ At(data.x_lb_idx, 1) = 2
    /\ res.z_lb = <<I(0), I(1), I(2)>>
    /\ res.s_lb = <<PInf, I(11), I(12)>>

\* The pass in progress has run its infeasibility tests
InfeasTested == pc \in {"ret", "factor"} /\ hist.formed

\* The two conditions on what the pass had at the tests
PrimalTest ==
    /\ hist.ndu > 5
    /\ FGt(pt.prox_dual, I(ProxLimit))
    /\ FLt(hist.rp, settings.feas_tol_abs)

DualTest ==
    /\ hist.npu > 5
    /\ FGt(pt.prox_primal, I(ProxLimit))
    /\ FLt(hist.rd, settings.feas_tol_abs)

\* C12: solve returns PRIMAL_INFEASIBLE only from a pass whose primal
\* infeasibility condition held at the test and DUAL_INFEASIBLE only from one
\* whose dual condition held; a pass that was not SOLVED returns
\* PRIMAL_INFEASIBLE whenever the primal condition holds and DUAL_INFEASIBLE
\* whenever only the dual one holds.
C12_InfeasibleExactlyOnTests ==
    /\ (pc = "ret" /\ info.status = "PRIMAL_INFEASIBLE") => (hist.formed /\ PrimalTest)
    /\ (pc = "ret" /\ info.status = "DUAL_INFEASIBLE") => (hist.formed /\ DualTest)
    /\ (InfeasTested /\ PrimalTest) => info.status = "PRIMAL_INFEASIBLE"
    /\ (InfeasTested /\ ~PrimalTest /\ DualTest) => info.status = "DUAL_INFEASIBLE"

\* Both conditions held and the primal one, tested first, decided
C12_Witness ==
    /\ pc = "ret" /\ info.status = "PRIMAL_INFEASIBLE"
    /\ PrimalTest /\ DualTest

\* An update call on a set-up solver
UpdateStep == pc = "idle" /\ setup_done /\ hist'.call = "update" /\ hist'.calls = hist.calls + 1

\* The log of a call: unscale_data, one write for each supplied component,
\* scale_data, update_data
UpdateLog(log, supplied) ==
    /\ Len(log) = Cardinality(supplied) + 3
    /\ log[1] = "pre.unscale_data"
    /\ {log[k] : k \in 2..(Len(log) - 2)} = {"data.write:" \o c : c \in supplied}
    /\ log[Len(log) - 1] = "pre.scale_data"
    /\ log[Len(log)] = "kkt.update_data"

\* C13: an update on a set-up solver unscales the data, writes exactly the
\* supplied components (the compressed bounds of a side only with its bound
\* vector), scales the data, and hands update_data exactly the supplied ones
\* among P, A, G; the data store is scaled before and after.
C13_UpdateProtocol ==
    [][UpdateStep =>
         /\ UpdateLog(oplog', hist'.supplied)
         /\ hist'.flags = {c \in hist'.supplied : c \in {"P", "A", "G"}}
         /\ "x_lb" \notin hist'.supplied =>
               /\ data'.n_lb = data.n_lb
               /\ data'.x_lb_n = data.x_lb_n
               /\ data'.x_lb_idx = data.x_lb_idx
         /\ "x_ub" \notin hist'.supplied =>
               /\ data'.n_ub = data.n_ub
               /\ data'.x_ub = data.x_ub
               /\ data'.x_ub_idx = data.x_ub_idx
         /\ \A c \in Comps : store[c] = 1 /\ store'[c] = 1]_vars

\* An update that was handed P, G, c, h and no bounds has run
C13_Witness ==
    /\ pc = "idle" /\ setup_done /\ hist.call = "update"
    /\ hist.supplied = {"P", "G", "c", "h"}
    /\ hist.flags = {"P", "G"}
    /\ Len(oplog) = 7

\* max(reg_limit, num/den * r)
FlooredDecay(reg_limit, num, den, r) ==
    IF FLt(reg_limit, FMul(Rat(num, den), r)) THEN FMul(Rat(num, den), r) ELSE reg_limit

\* The rest of a pass after its successful factorize(), without inequalities
\* and active bounds
EqStep == pc = "step" /\ data.m + data.n_lb + data.n_ub = 0

\* C14: with N = 0 a successful pass makes one KKT solve, takes full steps,
\* leaves the slacks and inequality duals alone, scales rho by 0.1 (zeta <- x)
\* when the new dual residual norm is < 0.95 * dual_inf and by 0.5
\* (no_primal_update + 1) otherwise, never below reg_limit; delta likewise on
\* the primal residual; mu is 0 throughout the solve.
C14_EqualityOnlyPass ==
    [][/\ EqStep =>
           /\ oplog' = <<"kkt.update_scalings", "kkt.factorize:ok", "kkt.solve">>
           /\ info'.primal_step = I(1) /\ info'.dual_step = I(1)
           /\ res' = res
           /\ IF FLt(nr'.dual, FMul(Rat(95, 100), info.dual_inf))
              THEN /\ info'.rho = FlooredDecay(info.reg_limit, 1, 10, info.rho)
                   /\ pt'.prox_primal = I(0)
                   /\ info'.no_primal_update = info.no_primal_update
              ELSE /\ info'.rho = FlooredDecay(info.reg_limit, 1, 2, info.rho)
                   /\ info'.no_primal_update = info.no_primal_update + 1
           /\ IF FLt(nr'.primal, FMul(Rat(95, 100), info.primal_inf))
              THEN /\ info'.delta = FlooredDecay(info.reg_limit, 1, 10, info.delta)
                   /\ pt'.prox_dual = I(0)
                   /\ info'.no_dual_update = info.no_dual_update
              ELSE /\ info'.delta = FlooredDecay(info.reg_limit, 1, 2, info.delta)
                   /\ info'.no_dual_update = info.no_dual_update + 1
       /\ (data.m + data.n_lb + data.n_ub = 0
           /\ pc' \in {"init_factor", "init_solve", "loop", "factor", "step"})
             => info'.mu = I(0)]_vars

\* After a retry (rho = 400) a pass without progress on the dual residual
\* and with progress on the primal one: rho halved, delta cut to a tenth
C14_Witness ==
    /\ pc = "loop" /\ NLive(data) = 0 /\ hist.passes > 0
    /\ info.rho = I(200) /\ info.delta = I(40)
    /\ info.no_primal_update = 1 /\ info.no_dual_update = 0
    /\ info.mu = I(0) /\ info.primal_step = I(1)

\* C15: when solve has returned SOLVED, info.factor_retires is 0, whether or
\* not the solve went through factorisation retries.
C15_SolvedWithoutRetryCount ==
    (pc \in {"ret", "idle"} /\ hist.call = "solve" /\ info.status = "SOLVED")
        => info.factor_retires = 0

\* SOLVED after a retry in the outer loop; rho still carries the factor 100
C15_Witness ==
    /\ pc = "ret" /\ info.status = "SOLVED"
    /\ hist.retries > 0 /\ info.iter > 0
    /\ FGt(info.rho, settings.rho_init)

\* The nonzero k of A and the nonzero of C that Ai_to_Ci sends it to
SameNonzero(k) ==
    LET e == At(sparse.A, k)
        f == At(sparse.C, At(sparse.Ai_to_Ci, k))
    IN  /\ f.v = e.v
        /\ f.r <= f.c
        /\ {At(sparse.perm, f.r), At(sparse.perm, f.c)} = {e.r, e.c}

\* C16: C holds the nonzeros of A under the ordering, in the upper triangle
\* and in compressed-column order; Ai_to_Ci is a bijection of the nonzero
\* positions that sends each nonzero of A to the same value in C; under the
\* natural ordering C = A and the map is 0..nnz-1; for the 4x4 test matrix
\* under [1 2 0 3] the map is [3,0,2,1,5,4,6].
C16_SymmetricPermutation ==
    sparse.done =>
        /\ Len(sparse.C) = Len(sparse.A) /\ Len(sparse.Ai_to_Ci) = Len(sparse.A)
        /\ {At(sparse.Ai_to_Ci, k) : k \in 0..(Len(sparse.A) - 1)} = 0..(Len(sparse.A) - 1)
        /\ \A k \in 0..(Len(sparse.A) - 1) : SameNonzero(k)
        /\ \A k \in 1..(Len(sparse.C) - 1) :
              \/ sparse.C[k].c < sparse.C[k + 1].c
              \/ sparse.C[k].c = sparse.C[k + 1].c /\ sparse.C[k].r < sparse.C[k + 1].r
        /\ (\A k \in 1..Len(sparse.perm) : sparse.perm[k] = k - 1) =>
              /\ sparse.C = sparse.A
              /\ \A k \in 1..Len(sparse.A) : sparse.Ai_to_Ci[k] = k - 1
        /\ (sparse.A = AmdTestMatrix /\ sparse.perm = <<1, 2, 0, 3>>) =>
              /\ sparse.Ai_to_Ci = <<3, 0, 2, 1, 5, 4, 6>>
              /\ [k \in 1..7 |-> sparse.C[k].v] = <<4, 6, 2, 1, 5, 3, 7>>

\* The test matrix has been permuted under the AMD ordering
C16_Witness ==
    /\ sparse.done /\ sparse.perm = <<1, 2, 0, 3>>
    /\ [k \in 1..Len(sparse.A) |-> sparse.A[k].v] = <<1, 4, 2, 6, 3, 5, 7>>
    /\ sparse.Ai_to_Ci = <<3, 0, 2, 1, 5, 4, 6>>

\* The pass in progress has run its convergence test: it went on to
\* factorize(), or it returned (MAX_ITER_REACHED is returned by no pass)
PassTested ==
    \/ pc \in {"factor", "step"}
    \/ pc = "ret" /\ hist.passes > 0 /\ info.status # "MAX_ITER_REACHED"

\* C17: at the convergence test and at the formation of the regularised
\* residuals the non-regularised residuals are those of the current iterate,
\* as are primal_inf and dual_inf taken from them.
C17_ResidualsNeverStale ==
    PassTested =>
        /\ nr.dual = pt.dual_nr /\ nr.primal = pt.primal_nr
        /\ nr.rel_primal = pt.rel_primal /\ nr.rel_dual = pt.rel_dual
        /\ info.primal_inf = pt.primal_nr /\ info.dual_inf = pt.dual_nr

\* The first pass of a later solve, entered again after a factorisation
\* retry, at a point other than the one the previous solve ended at
C17_Witness ==
    /\ pc = "factor" /\ hist.iter0 = 0 /\ hist.passes > 1 /\ hist.retries > 0
    /\ hist.calls > 2 /\ pt.dual_nr = I(8) /\ nr.dual = I(8)

\* The dual centres nu, nu_lb, nu_ub are where they were
CentresKept == res'.nu = res.nu /\ res'.nu_lb = res.nu_lb /\ res'.nu_ub = res.nu_ub

\* The dual centres are at the new duals (the live heads of the bound arrays)
CentresMoved ==
    /\ res'.nu = res'.z
    /\ SubSeq(res'.nu_lb, 1, data.n_lb) = SubSeq(res'.z_lb, 1, data.n_lb)
    /\ SubSeq(res'.nu_ub, 1, data.n_ub) = SubSeq(res'.z_ub, 1, data.n_ub)

\* C18: a successful pass moves zeta to x exactly when the new dual residual
\* norm is < 0.95 * dual_inf, and otherwise adds 1 to no_primal_update; it
\* moves lambda, nu, nu_lb, nu_ub to the duals exactly when the new primal
\* residual norm is < 0.95 * primal_inf, and otherwise leaves them and adds 1
\* to no_dual_update; the head of a pass and factorize() with its retry leave
\* the centres alone.
C18_CentresOnlyOnProgress ==
    [][/\ pc = "step" =>
           /\ IF FLt(nr'.dual, FMul(Rat(95, 100), info.dual_inf))
              THEN /\ pt'.prox_primal = I(0)
                   /\ info'.no_primal_update = info.no_primal_update
              ELSE /\ pt'.prox_primal \in Env.proxs
                   /\ info'.no_primal_update = info.no_primal_update + 1
           /\ IF FLt(nr'.primal, FMul(Rat(95, 100), info.primal_inf))
              THEN /\ CentresMoved
                   /\ pt'.prox_dual = I(0)
                   /\ info'.no_dual_update = info.no_dual_update
              ELSE /\ CentresKept
                   /\ pt'.prox_dual \in Env.proxs
                   /\ info'.no_dual_update = info.no_dual_update + 1
       /\ pc \in {"loop", "factor"} => (CentresKept /\ pt' = pt)]_vars

\* A first pass with inequalities that made progress on both residuals: the
\* dual centres are at the new duals
C18_Witness ==
    /\ pc = "loop" /\ NLive(data) > 0 /\ info.iter = 1 /\ hist.passes = 1
    /\ info.no_primal_update = 0 /\ info.no_dual_update = 0
    /\ res.nu = res.z /\ res.nu # <<>>
    /\ pt.prox_dual = I(0)

\* A pass that got past its tests: iter++, the stagnation step, and the
\* staging of the scalings
StallStep == pc = "loop" /\ pc' = "factor"

\* The condition of the stagnation step on the state before it
StallCondition ==
    /\ info.reg_limit # I(1)
    /\ \/ info.no_primal_update > 5 /\ info.rho = info.reg_limit
       \/ info.no_dual_update > 5 /\ info.delta = info.reg_limit

\* What the stagnation step does to reg_limit and the counters
StallEffect ==
    IF StallCondition
    THEN /\ info'.reg_limit = I(1)
         /\ info'.no_primal_update = 0 /\ info'.no_dual_update = 0
    ELSE /\ info'.reg_limit = info.reg_limit
         /\ info'.no_primal_update = info.no_primal_update
         /\ info'.no_dual_update = info.no_dual_update

\* C19: after iter++, a pass whose stagnation condition holds sets reg_limit
\* to 1e-13 and both counters to 0, any other pass leaves the three alone; the
\* step never raises reg_limit and never changes rho or delta.
C19_StallResetOnlyLowers ==
    [][StallStep =>
         /\ info'.iter = info.iter + 1
         /\ StallEffect
         /\ FLe(info'.reg_limit, info.reg_limit)
         /\ info'.rho = info.rho /\ info'.delta = info.delta]_vars

\* What holds of the step: the same without the direction of the change
StallStepAsCoded ==
    [][StallStep =>
         /\ info'.iter = info.iter + 1
         /\ StallEffect
         /\ info'.rho = info.rho /\ info'.delta = info.delta]_vars

\* The entry k of the log is a solve on a factorisation that succeeded: the
\* entries between the last successful factorize() and k are solves
SolveOnFactorisation(k) ==
    \E j \in 1..(k - 1) :
        /\ oplog[j] = "kkt.factorize:ok"
        /\ \A l \in (j + 1)..(k - 1) : oplog[l] = "kkt.solve"

\* How often op occurs in the log
Occurrences(op) == Cardinality({k \in 1..Len(oplog) : oplog[k] = op})

\* The initial iterate has just been computed
AfterInitialSolve == pc = "loop" /\ hist.call = "solve" /\ hist.passes = 0

\* A pass has just ended with its step
AfterStep == pc = "loop" /\ hist.call = "solve" /\ hist.passes > 0 /\ ~hist.retry

\* C20: every KKT solve follows a successful factorize() with no failed
\* factorize() and no update_scalings in between; a pass that succeeds calls
\* update_scalings once, factorize once, then solve twice when N > 0 and once
\* when N = 0; the initial iterate takes one solve after the initial
\* factorisation; KKT.init is called by setup only.
C20_KktCallProtocol ==
    /\ \A k \in 1..Len(oplog) : oplog[k] = "kkt.solve" => SolveOnFactorisation(k)
    /\ AfterStep =>
          /\ Len(oplog) = (IF data.m + data.n_lb + data.n_ub > 0 THEN 4 ELSE 3)
          /\ oplog[1] = "kkt.update_scalings"
          /\ oplog[2] = "kkt.factorize:ok"
          /\ \A k \in 3..Len(oplog) : oplog[k] = "kkt.solve"
    /\ AfterInitialSolve =>
          /\ Occurrences("kkt.solve") = 1
          /\ Occurrences("kkt.factorize:ok") = 1
          /\ oplog[Len(oplog)] = "kkt.solve"
          /\ oplog[Len(oplog) - 1] = "kkt.factorize:ok"
    /\ Occurrences("kkt.init") > 0 => (hist.call = "setup" /\ Occurrences("kkt.init") = 1)

\* The second predictor-corrector pass of a solve has ended: one
\* update_scalings, one factorize, two solves
C20_Witness ==
    /\ AfterStep /\ NLive(data) > 0 /\ hist.passes > 1 /\ info.iter = 2
    /\ oplog = <<"kkt.update_scalings", "kkt.factorize:ok", "kkt.solve", "kkt.solve">>

\* The scalings staged in the KKT operator are the driver's rho and delta
StagedCurrent == kkt.rho = info.rho /\ kkt.delta = info.delta

\* C21: at every factorize() call of solve the rho and delta last staged in
\* the KKT operator are info.rho and info.delta, also at the calls that
\* retry a failed factorisation, in the initial loop and in the outer loop.
C21_FactorizeOnCurrentScalings ==
    pc \in {"init_factor", "factor"} => StagedCurrent

\* What holds: at the factorize() calls of the outer loop, and at the first
\* call of a solve that did not inherit the state of a failed initial loop
FactorizeOnStagedAsCoded ==
    /\ pc = "factor" => StagedCurrent
    /\ (pc = "init_factor" /\ hist.failed = 0) => StagedCurrent

\* solve_impl has returned a caller-error status
CallerError ==
    /\ pc = "ret"
    /\ \/ info.status = "INVALID_SETTINGS"
       \/ info.status = "UNSOLVED" /\ ~setup_done

\* C22: a solve that returns INVALID_SETTINGS, or UNSOLVED for want of a
\* setup, leaves the result vectors as they were before the call; a solution
\* returned earlier is not unscaled or permuted a second time.
C22_CallerErrorKeepsResults ==
    [][CallerError => res' = res]_vars

\* What the second restore_box_dual leaves of an earlier solution: the dual of
\* the one active lower bound, at index 1, is gone
LostBoxDual ==
    /\ pc = "idle" /\ info.status = "INVALID_SETTINGS"
    /\ data.n_lb = 1 /\ At(data.x_lb_idx, 0) = 1
    /\ res.z_lb = <<I(0), I(0)>> /\ res.level < 0

\* A solve is about to make its first factorize() call
InitialFactorisationStarts ==
    pc = "init_factor" /\ hist.call = "solve" /\ hist.fails = 0 /\ hist.retries = 0

\* C23: every solve on a set-up solver starts its initial factorisation
\* with rho = rho_init, delta = delta_init, reg_limit = reg_lower_limit and
\* iter, factor_retires, no_primal_update, no_dual_update at 0, however the
\* solves before it ended.
C23_SolveStartsFromSettings ==
    InitialFactorisationStarts =>
        /\ info.rho = settings.rho_init /\ info.delta = settings.delta_init
        /\ info.reg_limit = settings.reg_lower_limit
        /\ info.iter = 0 /\ info.factor_retires = 0
        /\ info.no_primal_update = 0 /\ info.no_dual_update = 0

\* What holds: everything but rho and delta is reset, and rho and delta are
\* reset once a pass of an earlier solve has staged scalings of its own
SolveStartAsCoded ==
    InitialFactorisationStarts =>
        /\ info.reg_limit = settings.reg_lower_limit
        /\ info.iter = 0 /\ info.factor_retires = 0
        /\ info.no_primal_update = 0 /\ info.no_dual_update = 0
        /\ ~kkt_init_state =>
              (info.rho = settings.rho_init /\ info.delta = settings.delta_init)

\* A solve starts from the rho and delta that the retries of the previous
\* solve's initial loop left behind
InheritedInflation ==
    /\ InitialFactorisationStarts /\ hist.failed > 0 /\ kkt_init_state
    /\ info.rho = FMul(I(100), settings.rho_init)
    /\ kkt.rho = settings.rho_init

InSolve == pc \notin {"idle", "aborted"}

Infeasible == info.status \in {"PRIMAL_INFEASIBLE", "DUAL_INFEASIBLE"}

\* C24: in every state of solve no_primal_update <= iter and
\* no_dual_update <= iter, so that PRIMAL_INFEASIBLE or DUAL_INFEASIBLE is
\* returned only with iter >= 6.
C24_CountersBoundedByIter ==
    InSolve =>
        /\ info.no_primal_update <= info.iter
        /\ info.no_dual_update <= info.iter
        /\ (pc = "ret" /\ Infeasible) => info.iter >= StallLimit + 1

\* An infeasibility verdict at the first iteration that allows one, reached
\* through a factorisation retry
C24_Witness ==
    /\ pc = "ret" /\ Infeasible /\ info.iter = StallLimit + 1
    /\ info.no_primal_update = info.iter \/ info.no_dual_update = info.iter
    /\ hist.retries > 0

\* The live (s, z) the initial KKT solve can return in the current state
InitialOutputs ==
    { <<SlackBackSubstitution(Ones(NLive(data)), Ones(NLive(data)),
                              [k \in 1..NLive(data) |-> I(0)], z0), z0>> :
        z0 \in [1..NLive(data) -> Env.kkt0] }

Positive(a) == IsFinite(a) /\ FGt(a, I(0))

NonZero(a) == ~IsNaN(a) /\ a # I(0)

\* C25: with N > 0 the driver never divides by zero: mu > 0 whenever sigma
\* (division by mu * N) and mu_rate (division by mu_prev) are computed, and
\* both denominators of the initial shift are non-zero for every output of
\* the initial KKT solve, zero and negative components included.
C25_NoDivisionByZero ==
    NLive(data) > 0 =>
        /\ pc \in {"loop", "factor", "step"} => Positive(info.mu)
        /\ pc = "init_solve" =>
              \A o \in InitialOutputs :
                  /\ NonZero(ShiftDenominators(o[1], o[2]).of_s_bar)
                  /\ NonZero(ShiftDenominators(o[1], o[2]).of_z_bar)

\* The predictor is about to compute sigma from the iterate that the shift
\* made of an initial solve with a negative and a zero dual
C25_Witness ==
    /\ pc = "step" /\ NLive(data) = 2 /\ info.iter = 1
    /\ <<<<I(1), I(0)>>, <<I(-1), I(0)>>>> \in InitialOutputs
    /\ LiveS(data, res) = <<Rat(9, 8), Rat(1, 8)>>
    /\ LiveZ(data, res) = <<Rat(3, 4), Rat(7, 4)>>
    /\ info.mu = Rat(17, 32)

=============================================================================
